---- MODULE Spec2Model ----
(***************************************************************************)
(* SumTablets: the transliteration normalization and glyph resolution      *)
(* pipeline.                                                               *)
(*                                                                         *)
(* A text is a sequence of characters; a character is a one-character      *)
(* string.  Two characters outside ASCII are written by name: "ulc" and    *)
(* "urc" are the upper-left and upper-right corner brackets of the source. *)
(* Regular expressions are values (a small syntax tree) interpreted by     *)
(* Ends with the backtracking order of Python's re module.                 *)
(***************************************************************************)
EXTENDS Integers, Sequences, FiniteSets, TLC

----------------------------------------------------------------------------
(* Characters and strings                                                  *)

Range(s) == {s[i] : i \in 1..Len(s)}

\* the element of a set of one element; { e(x) : x \in {v} } names v once
The(S) == CHOOSE v \in S : TRUE

NL == "\n"
SP == " "
HY == "-"

LowerCase == {"a","b","c","d","e","f","g","h","i","j","k","l","m",
              "n","o","p","q","r","s","t","u","v","w","x","y","z"}
UpperCase == {"A","B","C","D","E","F","G","H","I","J","K","L","M",
              "N","O","P","Q","R","S","T","U","V","W","X","Y","Z"}
Digit == {"0","1","2","3","4","5","6","7","8","9"}

\* s[i..] and s[..j] of Python slicing, on 1-based sequences
From(s, i) == SubSeq(s, i, Len(s))
Upto(s, j) == SubSeq(s, 1, j)

\* sub occurs in s at index i
At(s, i, sub) ==
    /\ i >= 1
    /\ i + Len(sub) - 1 <= Len(s)
    /\ \A k \in 1..Len(sub) : s[i + k - 1] = sub[k]

\* str.find: the first index >= from at which sub occurs, 0 when there is none
RECURSIVE Find(_, _, _)
Find(s, sub, from) ==
    IF from + Len(sub) - 1 > Len(s) THEN 0
    ELSE IF At(s, from, sub) THEN from
    ELSE Find(s, sub, from + 1)

\* the `in` operator on strings
Contains(s, sub) == (sub = <<>> \/ sub[1] \in Range(s)) /\ Find(s, sub, 1) # 0

\* str.replace(old, new): every non-overlapping occurrence, left to right
RECURSIVE ReplaceFrom(_, _, _, _)
ReplaceFrom(s, old, new, from) ==
    The({ IF i = 0 THEN From(s, from)
          ELSE SubSeq(s, from, i - 1) \o new \o ReplaceFrom(s, old, new, i + Len(old)) :
          i \in { Find(s, old, from) } })

Replace(s, old, new) ==
    IF old = <<>> \/ old[1] \notin Range(s) THEN s
    ELSE ReplaceFrom(s, old, new, 1)

\* str.split(sep) for a non-empty separator
RECURSIVE SplitFrom(_, _, _)
SplitFrom(s, sep, from) ==
    The({ IF i = 0 THEN << From(s, from) >>
          ELSE << SubSeq(s, from, i - 1) >> \o SplitFrom(s, sep, i + Len(sep)) :
          i \in { Find(s, sep, from) } })

Split(s, sep) == SplitFrom(s, sep, 1)

\* sep.join(parts)
RECURSIVE Join(_, _)
Join(parts, sep) ==
    IF parts = <<>> THEN <<>>
    ELSE IF Len(parts) = 1 THEN parts[1]
    ELSE parts[1] \o sep \o Join(Tail(parts), sep)

\* "".join(c for c in s if c in keep)
RECURSIVE Filter(_, _)
Filter(s, keep) ==
    IF s = <<>> THEN <<>>
    ELSE (IF s[1] \in keep THEN << s[1] >> ELSE <<>>) \o Filter(Tail(s), keep)

\* str.strip(): whitespace removed at both ends
White == {SP, NL}
RECURSIVE LStrip(_)
LStrip(s) == IF s # <<>> /\ s[1] \in White THEN LStrip(Tail(s)) ELSE s
RECURSIVE RStrip(_)
RStrip(s) ==
    IF s # <<>> /\ s[Len(s)] \in White
    THEN The({ RStrip(t) : t \in { Upto(s, Len(s) - 1) } })
    ELSE s
Strip(s) == The({ RStrip(t) : t \in { LStrip(s) } })

StartsWith(s, p) == At(s, 1, p)
EndsWith(s, p) == Len(p) <= Len(s) /\ At(s, Len(s) - Len(p) + 1, p)

----------------------------------------------------------------------------
(* Regular expressions (Python re: leftmost match, backtracking order)     *)

Lit(l)    == [t |-> "lit", s |-> l]
Cls(S)    == [t |-> "cls", set |-> S, neg |-> FALSE]
NotCls(S) == [t |-> "cls", set |-> S, neg |-> TRUE]
Cat(rs)   == [t |-> "cat", rs |-> rs]
Alt(rs)   == [t |-> "alt", rs |-> rs]
Star(r)   == [t |-> "star", r |-> r, greedy |-> TRUE]
Lazy(r)   == [t |-> "star", r |-> r, greedy |-> FALSE]
Plus(r)   == Cat(<< r, Star(r) >>)
Opt(r)    == Alt(<< r, Cat(<<>>) >>)
Bol       == [t |-> "bol"]
Eol       == [t |-> "eol"]
Ahead(r)  == [t |-> "ahead", r |-> r, neg |-> FALSE]
NotAhead(r) == [t |-> "ahead", r |-> r, neg |-> TRUE]

\* Ends(r, s, i): the positions just after a match of r that starts at i, in
\* the order in which the backtracking matcher tries them
RECURSIVE Ends(_, _, _), CatEnds(_, _, _, _), AltEnds(_, _, _, _),
          StarEnds(_, _, _, _), EachCat(_, _, _, _, _), EachStar(_, _, _, _, _)
Ends(r, s, i) ==
    CASE r.t = "lit"   -> IF At(s, i, r.s) THEN << i + Len(r.s) >> ELSE <<>>
      [] r.t = "cls"   -> IF i <= Len(s) /\ ((s[i] \in r.set) # r.neg)
                          THEN << i + 1 >> ELSE <<>>
      [] r.t = "cat"   -> CatEnds(r.rs, 1, s, i)
      [] r.t = "alt"   -> AltEnds(r.rs, 1, s, i)
      [] r.t = "star"  -> StarEnds(r.r, r.greedy, s, i)
      [] r.t = "bol"   -> IF i = 1 THEN << i >> ELSE <<>>
      [] r.t = "eol"   -> IF i = Len(s) + 1 \/ (i = Len(s) /\ s[i] = NL)
                          THEN << i >> ELSE <<>>
      [] r.t = "ahead" -> IF (Ends(r.r, s, i) # <<>>) # r.neg THEN << i >> ELSE <<>>

EachCat(rs, k, s, es, n) ==
    IF n > Len(es) THEN <<>>
    ELSE CatEnds(rs, k, s, es[n]) \o EachCat(rs, k, s, es, n + 1)

CatEnds(rs, k, s, i) ==
    IF k > Len(rs) THEN << i >>
    ELSE The({ EachCat(rs, k + 1, s, es, 1) : es \in { Ends(rs[k], s, i) } })

AltEnds(rs, k, s, i) ==
    IF k > Len(rs) THEN <<>>
    ELSE Ends(rs[k], s, i) \o AltEnds(rs, k + 1, s, i)

EachStar(r, greedy, s, es, n) ==
    IF n > Len(es) THEN <<>>
    ELSE StarEnds(r, greedy, s, es[n]) \o EachStar(r, greedy, s, es, n + 1)

StarEnds(r, greedy, s, i) ==
    The({ IF greedy THEN EachStar(r, greedy, s, es, 1) \o << i >>
          ELSE << i >> \o EachStar(r, greedy, s, es, 1) :
          es \in { SelectSeq(Ends(r, s, i), LAMBDA e : e > i) } })

\* the end of the first match of r at i, 0 when r does not match at i
MatchEnd(r, s, i) == The({ IF es = <<>> THEN 0 ELSE es[1] : es \in { Ends(r, s, i) } })

\* the characters every match of r holds (those of its literals): a text
\* without one of them is searched in vain
RECURSIVE Needs(_), NeedsAll(_, _), NeedsAny(_, _)
Needs(r) ==
    CASE r.t = "lit" -> Range(r.s)
      [] r.t = "cat" -> NeedsAll(r.rs, 1)
      [] r.t = "alt" -> NeedsAny(r.rs, 1)
      [] OTHER       -> {}

NeedsAll(rs, k) == IF k > Len(rs) THEN {} ELSE Needs(rs[k]) \cup NeedsAll(rs, k + 1)

NeedsAny(rs, k) ==
    IF k >= Len(rs) THEN (IF k = Len(rs) THEN Needs(rs[k]) ELSE {})
    ELSE Needs(rs[k]) \cap NeedsAny(rs, k + 1)

\* re.search from position from: << start, end >> of the leftmost match,
\* << 0, 0 >> when there is none
RECURSIVE Search(_, _, _)
Search(r, s, from) ==
    IF from > Len(s) + 1 THEN << 0, 0 >>
    ELSE The({ IF e # 0 THEN << from, e >> ELSE Search(r, s, from + 1) :
               e \in { MatchEnd(r, s, from) } })

\* re.sub(r, repl, s) where the replacement keeps the first h and the last
\* t characters of the match around repl (the \1 of the source's patterns)
RECURSIVE SubFrom(_, _, _, _, _, _)
SubFrom(r, repl, s, from, h, t) ==
    The({ IF m[1] = 0 THEN From(s, from)
          ELSE LET out == SubSeq(s, from, m[1] - 1)
                            \o SubSeq(s, m[1], m[1] + h - 1) \o repl
                            \o SubSeq(s, m[2] - t, m[2] - 1)
               IN  IF m[2] > m[1] THEN out \o SubFrom(r, repl, s, m[2], h, t)
                   ELSE IF m[1] > Len(s) THEN out
                   ELSE out \o << s[m[1]] >> \o SubFrom(r, repl, s, m[1] + 1, h, t) :
          m \in { Search(r, s, from) } })

Sub(r, repl, s, h, t) ==
    IF Needs(r) \subseteq Range(s) THEN SubFrom(r, repl, s, 1, h, t) ELSE s

\* re.findall(r, s): the matched texts, left to right, not overlapping
RECURSIVE FindAllFrom(_, _, _)
FindAllFrom(r, s, from) ==
    The({ IF m[1] = 0 THEN <<>>
          ELSE << SubSeq(s, m[1], m[2] - 1) >>
                 \o (IF m[2] > m[1] THEN FindAllFrom(r, s, m[2])
                     ELSE FindAllFrom(r, s, m[1] + 1)) :
          m \in { Search(r, s, from) } })

FindAll(r, s) == IF Needs(r) \subseteq Range(s) THEN FindAllFrom(r, s, 1) ELSE <<>>

----------------------------------------------------------------------------
(* Special tokens                                                          *)

\* SpecialTokensBefore / SpecialToken: the internal spellings
MISSING     == <<"#","M","I","S","S","I","N","G","#">>
SURFACE     == <<"#","S","U","R","F","A","C","E","#">>
COLUMN      == <<"#","C","O","L","U","M","N","#">>
BLANK_SPACE == <<"#","B","L","A","N","K","_","S","P","A","C","E","#">>
RULING      == <<"#","R","U","L","I","N","G","#">>
NEWLINE     == << NL >>

\* SpecialTokensAfter: the external spellings
MISSING_AFTER     == <<".",".",".">>
SURFACE_AFTER     == <<"<","S","U","R","F","A","C","E",">">>
COLUMN_AFTER      == <<"<","C","O","L","U","M","N",">">>
BLANK_SPACE_AFTER == <<"<","B","L","A","N","K","_","S","P","A","C","E",">">>
RULING_AFTER      == <<"<","R","U","L","I","N","G",">">>

\* bounds of the model
MaxAtoms == 3
MaxRuns == 2

\* the name of the cleaned column of a row
KEY == "transliteration_clean"

\* text.replace(m, new) for each m of matches, in order
RECURSIVE ReplaceEach(_, _, _)
ReplaceEach(text, matches, new) ==
    IF matches = <<>> THEN text
    ELSE ReplaceEach(Replace(text, matches[1], new), Tail(matches), new)

\* matches = re.findall(p, text), then text.replace(m, new) for each of them
ReplaceMatches(text, p, new) == ReplaceEach(text, FindAll(p, text), new)

\* text = re.sub(p, repl, text) for each << p, repl, h, t >> of subs, in order
RECURSIVE SubAll(_, _)
SubAll(text, subs) ==
    IF subs = <<>> THEN text
    ELSE SubAll(Sub(subs[1][1], subs[1][2], text, subs[1][3], subs[1][4]),
                Tail(subs))

----------------------------------------------------------------------------
(* Enclosure Normalizer, (1) easy wins                                     *)

double_angle_brackets(row) ==
    [row EXCEPT ![KEY] = Replace(Replace(@, <<"<","<">>, <<>>), <<">",">">>, <<>>)]

upper_brackets(row) ==
    [row EXCEPT ![KEY] = Replace(Replace(@, <<"ulc">>, <<>>), <<"urc">>, <<>>)]

double_curly_braces(row) ==
    LET p1 == Cat(<< Lit(<<"{","{">>), Lazy(NotCls({NL})), Lit(<<"}","}">>) >>)
        p2 == Cat(<< Lit(<< NL >>), Lazy(NotCls({NL})), Lit(<<"}","}">>) >>)
    IN  [row EXCEPT ![KEY] = ReplaceMatches(ReplaceMatches(@, p1, <<>>), p2, << NL >>)]

double_curly_braces_log(row) ==
    LET t == double_curly_braces(row)[KEY]
    IN  IF Contains(t, <<"{","{">>) \/ Contains(t, <<"}","}">>)
        THEN {<< row.id, "Uncaught in" >>} ELSE {}

\* the collapse without its rule for runs of hyphens
collapse_whitespace_missing(row) ==
    LET sh == Star(Cls({SP, HY}))
        h  == Star(Cls({HY}))
    IN  [row EXCEPT ![KEY] = SubAll(@, <<
            << Plus(Cat(<< sh, Lit(<< NL >>), sh >>)), << NL >>, 0, 0 >>,
            << Plus(Cat(<< h, Lit(<< SP >>), h >>)), << SP >>, 0, 0 >>,
            << Plus(Cat(<< sh, Lit(MISSING), sh >>)), MISSING, 0, 0 >>,
            << Plus(Cat(<< Lit(<< NL >> \o MISSING), Ahead(Lit(<< NL >>)) >>)),
               << NL >> \o MISSING, 0, 0 >> >>)]

collapse_whitespace_hyphens_missing(row) ==
    LET sh == Star(Cls({SP, HY}))
        h  == Star(Cls({HY}))
    IN  [row EXCEPT ![KEY] = SubAll(@, <<
            \* Newlines
            << Plus(Cat(<< sh, Lit(<< NL >>), sh >>)), << NL >>, 0, 0 >>,
            \* Spaces
            << Plus(Cat(<< h, Lit(<< SP >>), h >>)), << SP >>, 0, 0 >>,
            \* Hyphens
            << Plus(Lit(<< HY >>)), << HY >>, 0, 0 >>,
            \* MISSING
            << Plus(Cat(<< sh, Lit(MISSING), sh >>)), MISSING, 0, 0 >>,
            << Plus(Cat(<< Lit(<< NL >> \o MISSING), Ahead(Lit(<< NL >>)) >>)),
               << NL >> \o MISSING, 0, 0 >> >>)]

DISALLOWED_1 == << <<"<","<">>, <<">",">">>, <<"ulc">>, <<"urc">>,
                  <<"{","{">>, <<"}","}">> >>

\* the diagnostics a sanity check prints: one per disallowed string present
Disallowed(row, list, msg) ==
    {<< row.id, msg, list[k] >> :
        k \in {j \in 1..Len(list) : Contains(row[KEY], list[j])}}

sanity_check_1_log(row) ==
    Disallowed(row, DISALLOWED_1, "!!! Disallowed character")

----------------------------------------------------------------------------
(* Enclosure Normalizer, (2) enclosures out of order                       *)

\* bracket_seq after `while True: replace("[]", "")`
RECURSIVE RemovePairs(_)
RemovePairs(seq) ==
    LET r == Replace(seq, <<"[","]">>, <<>>)
    IN  IF Contains(r, <<"[","]">>) THEN RemovePairs(r) ELSE r

\* bracket_seq of a line: everything but square brackets dropped, pairs removed
BracketSeq(line) == RemovePairs(Filter(line, {"[", "]"}))

check_for_unmatched_brackets(row) ==
    IF row.id = "P343022"
    THEN [row EXCEPT ![KEY] = Replace(@, <<" ","[","x"," ","x"," ","x", NL>>,
                                         MISSING \o << NL >>)]
    ELSE row

\* the diagnostics with the loop run over every line
check_for_unmatched_brackets_log_every_line(row) ==
    LET lines == Split(check_for_unmatched_brackets(row)[KEY], << NL >>)
    IN  {<< row.id, "!!! Uncaught in: ", lines[k] >> :
            k \in {j \in 1..Len(lines) : BracketSeq(lines[j]) # <<>>}}

\* the loop returns inside its first iteration: only the first line is looked at
check_for_unmatched_brackets_log(row) ==
    LET lines == Split(check_for_unmatched_brackets(row)[KEY], << NL >>)
    IN  IF BracketSeq(lines[1]) # <<>> THEN {<< row.id, "!!! Uncaught in: ", lines[1] >>} ELSE {}

\* each match replaced by itself without old
RECURSIVE SwapEachDropsOld(_, _, _, _)
SwapEachDropsOld(text, matches, old, new) ==
    IF matches = <<>> THEN text
    ELSE SwapEachDropsOld(Replace(text, matches[1], Replace(matches[1], old, <<>>)),
                          Tail(matches), old, new)

\* text.replace(m, m.replace(old, new)) for each m of matches, in order
RECURSIVE SwapEach(_, _, _, _)
SwapEach(text, matches, old, new) ==
    IF matches = <<>> THEN text
    ELSE SwapEach(Replace(text, matches[1], Replace(matches[1], old, new)),
                  Tail(matches), old, new)

\* matches = re.findall(p, text), then text.replace(m, m.replace(old, new))
SwapMatches(text, p, old, new) == SwapEach(text, FindAll(p, text), old, new)

\* SwapMatches for each << p, old, new >> of cases, in order
RECURSIVE SwapCases(_, _)
SwapCases(text, cases) ==
    IF cases = <<>> THEN text
    ELSE SwapCases(SwapMatches(text, cases[1][1], cases[1][2], cases[1][3]),
                   Tail(cases))

fix_enclosure_order(row) ==
    LET xs == Lazy(Cls({HY, SP, "x"}))
        \* Case 1: ([...)...] -> [(...)...]
        c1 == Cat(<< Lit(<<"(","[">>), xs, Lit(<<")">>), xs, Lit(<<"]">>) >>)
        \* Case 2: [...(...]) -> [...(...)]
        c2 == Cat(<< Lit(<<"[">>), Lazy(NotCls({NL, "(", "]"})), Lit(<<"(">>),
                     Lazy(NotCls({NL, ")", "]"})), Lit(<<"]",")">>) >>)
        \* Case 3: {[...}...] -> [{...}...]
        c3 == Cat(<< Lit(<<"{","[">>), Lazy(NotCls({NL, "}", "]"})), Lit(<<"}">>),
                     Lazy(NotCls({NL, "]"})), Lit(<<"]">>) >>)
        \* Case 4: [...{...]} -> [...{...}]
        c4 == Cat(<< Lit(<<"[">>), Lazy(NotCls({NL, "{", "]"})), Lit(<<"{">>),
                     Lazy(NotCls({NL, "]"})), Lit(<<"]","}">>) >>)
        \* Case 5: <...{...>} -> <...{...}>
        c5 == Cat(<< Lit(<<"<">>), Lazy(NotCls({NL, "{", ">"})), Lit(<<"{">>),
                     Lazy(NotCls({NL, "}", ">"})), Lit(<<">","}">>) >>)
        \* Case 6: {<...}...> -> <{...}...>
        c6 == Cat(<< Lit(<<"{","<">>), Lazy(NotCls({NL, "}", ">"})), Lit(<<"}">>) >>)
        t6 == SwapCases(row[KEY], <<
                  << c1, <<"(","[">>, <<"[","(">> >>,
                  << c2, <<"]",")">>, <<")","]">> >>,
                  << c3, <<"{","[">>, <<"[","{">> >>,
                  << c4, <<"]","}">>, <<"}","]">> >>,
                  << c5, <<">","}">>, <<"}",">">> >>,
                  << c6, <<"{","<">>, <<"<","{">> >> >>)
    IN  [row EXCEPT ![KEY] =
            IF row.id = "P324221"
            THEN Replace(t6,
                   <<"[","m","a","-","d","a"," ","z","a","-","a","b","-","sz","a",
                     "-","l","i","{","<","k","i","]",">","}">>,
                   <<"[","m","a","-","d","a"," ","z","a","-","a","b","-","sz","a",
                     "-","l","i","<","{","k","i","}",">","]">>)
            ELSE t6]

----------------------------------------------------------------------------
(* Enclosure Normalizer, (3) other elements                                *)

\* the rule without its case for an opening bracket that is not closed
single_angle_brackets_closing_only(row) ==
    [row EXCEPT ![KEY] = SubAll(@, <<
        << Cat(<< Lit(<<"<">>), Lazy(NotCls({NL})), Lit(<<">">>) >>), <<>>, 0, 0 >>,
        << Cat(<< Alt(<< Lit(<< NL >>), Bol >>), Lazy(NotCls({NL, "<"})),
                  Lit(<<">">>) >>),
           << NL >> \o MISSING, 0, 0 >> >>)]

single_angle_brackets(row) ==
    [row EXCEPT ![KEY] = SubAll(@, <<
        \* Normal case
        << Cat(<< Lit(<<"<">>), Lazy(NotCls({NL})), Lit(<<">">>) >>), <<>>, 0, 0 >>,
        \* Unmatched opening: <abc\n. Get rid of rest of line
        << Cat(<< Lit(<<"<">>), Lazy(NotCls({NL, ">"})),
                  Alt(<< Lit(<< NL >>), Eol >>) >>),
           MISSING \o << NL >>, 0, 0 >>,
        \* Unmatched closing: \n abc>. Get rid of start of line
        << Cat(<< Alt(<< Lit(<< NL >>), Bol >>), Lazy(NotCls({NL, "<"})),
                  Lit(<<">">>) >>),
           << NL >> \o MISSING, 0, 0 >> >>)]

semicolons(row) == [row EXCEPT ![KEY] = Replace(@, <<";">>, << NL >>)]

single_curly_braces(row) ==
    [row EXCEPT ![KEY] = Replace(Replace(@, <<"{","-">>, <<"{">>), <<"-","}">>, <<"}">>)]

\* one turn of the loop over the matches: a match with a hyphen is looked for
\* without its hyphens
RECURSIVE VerticalBarsEach(_, _)
VerticalBarsEach(text, matches) ==
    IF matches = <<>> THEN text
    ELSE LET m == IF HY \in Range(matches[1])
                  THEN Replace(matches[1], << HY >>, <<>>) ELSE matches[1]
         IN  VerticalBarsEach(Replace(text, m, m \o << HY >>), Tail(matches))

VerticalBarsPattern ==
    Cat(<< Lit(<<"|">>), Lazy(NotCls({"|"} \cup LowerCase)), Lit(<<"|">>) >>)

vertical_bars(row) ==
    [row EXCEPT ![KEY] = VerticalBarsEach(@, FindAll(VerticalBarsPattern, @))]

vertical_bars_log(row) ==
    LET ms == FindAll(VerticalBarsPattern, row[KEY])
    IN  {<< row.id, "!!! Uncaught hyphen in vertical bars", ms[k] >> :
            k \in {j \in 1..Len(ms) : HY \in Range(ms[j])}}

parentheses(row) ==
    [row EXCEPT ![KEY] = Replace(SubAll(@, <<
            \* -) -> )-
            << Cat(<< Plus(Lit(<< HY >>)), Lit(<<")">>) >>), <<")", HY>>, 0, 0 >>,
            \* (abc)def -> (abc)-def
            << Cat(<< Lit(<<")">>), Cls(LowerCase \cup UpperCase) >>),
               <<")", HY>>, 0, 1 >> >>),
        \* (- -> (
        <<"(", HY>>, <<"(">>)]

DISALLOWED_2 == << <<"<">>, <<">">>, <<"(","-">>, <<"-",")">>, <<"{","-">>, <<"-","}">> >>

sanity_check_2_log(row) ==
    Disallowed(row, DISALLOWED_2, "!!! Disallowed character")

----------------------------------------------------------------------------
(* Enclosure Normalizer, (4) MISSING                                       *)

single_square_brackets(row) ==
    LET in   == Lazy(NotCls({"[", "]", NL}))
        pair == Cat(<< Lit(<<"[">>), in, Lit(<<"]">>) >>)
    IN  [row EXCEPT ![KEY] = SubAll(@, <<
            \* [abc def] -> MISSING, twice because of nested brackets
            << pair, MISSING, 0, 0 >>,
            << pair, MISSING, 0, 0 >>,
            \* abc [def..\n -> abc MISSING\n
            << Cat(<< Lit(<<"[">>), in, Lit(<< NL >>) >>), MISSING \o << NL >>, 0, 0 >>,
            \* \n ...abc] def -> \nMISSING def
            << Cat(<< Lit(<< NL >>), in, Lit(<<"]">>) >>), << NL >> \o MISSING, 0, 0 >> >>)]

\* text.replace(old, new) for each << old, new >> of pairs, in order (an
\* empty text stays empty)
RECURSIVE ReplacePairs(_, _)
ReplacePairs(t, pairs) ==
    IF pairs = <<>> \/ t = <<>> THEN t
    ELSE ReplacePairs(Replace(t, pairs[1][1], pairs[1][2]), Tail(pairs))

\* the body of `for char in [...]`: sixteen replacements for one character
\* (" x$" and "-x$" are raw strings given to str.replace: the dollar is a
\* character, not an anchor)
XonPairs(c) ==
    << << <<"(", c, ")">>, MISSING >>,
       << <<"[", c, "]">>, MISSING >>,
       << <<"(", c, ")">>, MISSING >>,
       << <<"[", c, "]">>, MISSING >>,
       << << HY, c, HY >>, << SP >> \o MISSING \o << SP >> >>,
       << << SP, c, HY >>, << SP >> \o MISSING \o << SP >> >>,
       << << HY, c, SP >>, << SP >> \o MISSING \o << SP >> >>,
       << << SP, c, SP >>, << SP >> \o MISSING \o << SP >> >>,
       << << NL, c, SP >>, << NL >> \o MISSING \o << SP >> >>,
       << << SP, c, NL >>, << SP >> \o MISSING \o << NL >> >>,
       << << SP, c, "$" >>, MISSING >>,
       << << HY, c, "$" >>, MISSING >>,
       << MISSING \o << c, SP >>, MISSING >>,
       << MISSING \o << c, HY >>, MISSING >>,
       << << SP, c >> \o MISSING, MISSING >>,
       << << HY, c >> \o MISSING, MISSING >> >>

\* `for char in ["x", "o", "n", "X", "O", "N"]` (each of the sixteen strings
\* holds the character, so a text without it is left as it is)
RECURSIVE XonChars(_, _)
XonChars(t, cs) ==
    IF cs = <<>> \/ t = <<>> THEN t
    ELSE XonChars(IF cs[1] \in Range(t) THEN ReplacePairs(t, XonPairs(cs[1])) ELSE t,
                  Tail(cs))

x_o_n(row) ==
    LET sep == Cls({SP, HY, NL})
        t2 == XonChars(Sub(Cat(<< sep, Cls({"x","X","n","N","o"}),
                                  Ahead(Alt(<< sep, Eol >>)) >>),
                           MISSING, row[KEY], 1, 0),
                       <<"x", "o", "n", "X", "O", "N">>)
        t3 == CASE row.id = "P010855" ->
                     Replace(t2, <<"x",":","u","r">>, <<"u","r">> \o MISSING)
                [] row.id = "P278368" ->
                     Replace(t2, <<"-","x","/","E","R","E","N">>, MISSING)
                [] row.id = "P323466" ->
                     Replace(t2, <<"|","3","x","A","N","|">>,
                                 <<"|","A","N",".","A","N",".","A","N","|">>)
                [] row.id = "P467714" ->
                     Replace(t2, <<"x",")">>, MISSING \o <<")">>)
                [] OTHER -> t2
    IN  [row EXCEPT ![KEY] = t3]

\* the strings of the loop of _dollar_signs, in its order ("SZ" and "_2" are
\* the characters S-caron and subscript two)
DollarStrings ==
    << <<"$"," ","t","r","a","c","e","s"," ","$">>,
       <<"(","$","e","r","a","s","u","r","e","$",")">>,
       <<"$","e","r","a","s","u","r","e","$">>,
       <<"$","A","N">>, <<"$","M","U">>, <<"$","U","SZ">>, <<"$","K","I","D">>,
       <<"$","D","I">>, <<"$","G","A","_2">>, <<"$","H","A","R">> >>

\* the loop with the sign kept: the three spans become the missing marker
\* and a `$SIGN` loses its first character
RECURSIVE WithoutDollar(_, _)
WithoutDollar(text, strs) ==
    IF strs = <<>> THEN text
    ELSE WithoutDollar(Replace(text, strs[1], Tail(strs[1])), Tail(strs))

dollar_signs_keep_sign(row) ==
    [row EXCEPT ![KEY] = WithoutDollar(ReplaceEach(@, SubSeq(DollarStrings, 1, 3), MISSING),
                                       SubSeq(DollarStrings, 4, Len(DollarStrings)))]

dollar_signs(row) == [row EXCEPT ![KEY] = ReplaceEach(@, DollarStrings, MISSING)]

dollar_signs_log(row) ==
    IF "$" \in Range(dollar_signs(row)[KEY]) THEN {<< row.id, "!!! Uncaught $ in" >>} ELSE {}

ellipses(row) == [row EXCEPT ![KEY] = Replace(@, <<".",".",".">>, MISSING)]

\* group 1 of a match of the pattern of _standalone_parens: the match
\* without the delimiter it may start with and the one it may end with
ParenGroup(m) ==
    LET a == IF m[1] = "(" THEN m ELSE Tail(m)
    IN  IF a[Len(a)] = ")" THEN a ELSE Upto(a, Len(a) - 1)

RECURSIVE ParenGroups(_)
ParenGroups(ms) == IF ms = <<>> THEN <<>> ELSE << ParenGroup(ms[1]) >> \o ParenGroups(Tail(ms))

standalone_parens(row) ==
    LET delim == {NL, SP, HY}
        p == Cat(<< Alt(<< Bol, Cls(delim) >>),
                    Lit(<<"(">>), Plus(NotCls({NL, ")"})), Lit(<<")">>),
                    Alt(<< Eol, Cls(delim) >>) >>)
    IN  [row EXCEPT ![KEY] = ReplaceEach(@, ParenGroups(FindAll(p, @)), <<>>)]

\* the list without the opening square bracket
DISALLOWED_3_no_open_bracket == << <<"]">>, <<"$">>, <<".",".",".">> >>

DISALLOWED_3 == << <<"[">>, <<"]">>, <<"$">>, <<".",".",".">> >>

sanity_check_3_log(row) ==
    Disallowed(row, DISALLOWED_3, "!!! Disallowed character")

----------------------------------------------------------------------------
(* Enclosure Normalizer, (5) enclosures and (6) final                      *)

missing_alone_in_enclosure(row) ==
    LET sh == Star(Cls({SP, HY}))
    IN  [row EXCEPT ![KEY] = SubAll(@, <<
            \* Alone in parens
            << Cat(<< Lit(<<"(">>), sh, Lit(MISSING), sh, Lit(<<")">>) >>),
               MISSING, 0, 0 >>,
            \* Alone in brackets
            << Cat(<< Lit(<<"{">>), sh, Lit(MISSING), sh, Lit(<<"}">>) >>),
               MISSING, 0, 0 >> >>)]

empty_enclosures(row) ==
    [row EXCEPT ![KEY] = Replace(Replace(@, <<"{","}">>, <<>>), <<"(",")">>, <<>>)]

\* the first of the five added strings is not an f-string in the source: it
\* is the ten characters of " {MISSING}"
DISALLOWED_FINAL ==
    DISALLOWED_1 \o DISALLOWED_2 \o DISALLOWED_3
      \o << <<" ","{","M","I","S","S","I","N","G","}">>, MISSING \o << SP >>,
            << NL, SP >>, << SP, NL >>, << SP, SP >> >>

sanity_check_final_log(row) ==
    Disallowed(row, DISALLOWED_FINAL, "Disallowed character")

convert_special_tokens(row) ==
    [row EXCEPT ![KEY] = ReplacePairs(@, <<
        << MISSING, MISSING_AFTER >>,
        << SURFACE, SURFACE_AFTER >>,
        << COLUMN, COLUMN_AFTER >>,
        << BLANK_SPACE, BLANK_SPACE_AFTER >>,
        << RULING, RULING_AFTER >>,
        << NEWLINE, NEWLINE >> >>)]

\* _without_special_tokens: the tokens removed one after the other, in the
\* order of the enumeration SpecialTokensAfter
without_special_tokens(x) ==
    ReplaceEach(x, << MISSING_AFTER, SURFACE_AFTER, COLUMN_AFTER,
                      BLANK_SPACE_AFTER, RULING_AFTER, NEWLINE >>, <<>>)

remove_tablets_with_no_transliteration(d) ==
    SelectSeq(d, LAMBDA row : without_special_tokens(row[KEY]) # <<>>)

----------------------------------------------------------------------------
(* State                                                                   *)

VARIABLES
    script,  \* the step that is running: "clean" (3_clean_up_transliterations),
             \* then the steps of the main of 5_add_glyphs; "walk" and the
             \* file of the walker that ran for the tree walker
    df,      \* the data frame: a sequence of rows
    pc,      \* the position in the step: in "clean", the index into fns;
             \* in "add_glyphs", the index of the next row
    log,     \* the diagnostics printed so far
    run,     \* how many times the phase sequence has been started
    infile,  \* 3_cleaned_transliterations.csv, as last written
    lists,   \* the diagnostic lists of 5_add_glyphs (its globals)
    glyph_to_observed_readings,  \* glyph -> Counter of morphemes
    resolved,  \* history: << morpheme, triples >> for every resolved morpheme
    cdl,     \* the node tree handed to the tree walker
    tokens,  \* the token list the walker returned
    langs,   \* the language set the walker returned
    corpus,  \* corpus.texts of 1_download_corpora: the texts and their files
    texts,   \* the rows of the texts loaded so far
    failed,  \* the file ids of the texts that failed to load
    osl,     \* osl.json: the letters of the sign list, each a list of signs
    morpheme_to_glyph_names,  \* 4_create_lookups: reading -> glyph names
    glyph_name_to_glyphs,     \* 4_create_lookups: glyph name -> glyphs
    outfiles \* the two lookup files as each run of 4_create_lookups wrote them

glyph_vars == << lists, glyph_to_observed_readings, resolved >>
walk_vars == << cdl, tokens, langs >>
load_vars == << corpus, texts, failed >>
lookup_vars == << osl, morpheme_to_glyph_names, glyph_name_to_glyphs, outfiles >>
vars == << script, df, pc, log, run, infile, glyph_vars, walk_vars, load_vars,
           lookup_vars >>

\* the globals of 5_add_glyphs as the module is loaded: every list empty
NoLists ==
    [ unk_readings_all |-> <<>>, non_unk_readings_all |-> <<>>,
      unk_readings_sign_name |-> <<>>, unk_readings_num |-> <<>>,
      unk_reading_other |-> <<>>, glyph_names_not_in_map |-> <<>>,
      glyph_names_no_unicode |-> <<>>, glyph_names_found_unicode |-> <<>> ]

----------------------------------------------------------------------------
(* 3_clean_up_transliterations: main                                       *)

\* the list without the collapse that follows the removal of empty enclosures
fns_no_last_collapse ==
    << "double_angle_brackets", "upper_brackets", "double_curly_braces",
       "collapse_whitespace_hyphens_missing", "sanity_check_1",
       "check_for_unmatched_brackets", "fix_enclosure_order",
       "single_angle_brackets", "semicolons", "single_curly_braces",
       "vertical_bars", "parentheses", "collapse_whitespace_hyphens_missing",
       "sanity_check_2",
       "single_square_brackets", "x_o_n", "x_o_n", "x_o_n", "dollar_signs",
       "ellipses", "standalone_parens", "collapse_whitespace_hyphens_missing",
       "sanity_check_3",
       "missing_alone_in_enclosure", "empty_enclosures",
       "sanity_check_final", "convert_special_tokens" >>

\* the functions of the list fns of main, in its order
fns ==
    << "double_angle_brackets", "upper_brackets", "double_curly_braces",
       "collapse_whitespace_hyphens_missing", "sanity_check_1",
       "check_for_unmatched_brackets", "fix_enclosure_order",
       "single_angle_brackets", "semicolons", "single_curly_braces",
       "vertical_bars", "parentheses", "collapse_whitespace_hyphens_missing",
       "sanity_check_2",
       "single_square_brackets", "x_o_n", "x_o_n", "x_o_n", "dollar_signs",
       "ellipses", "standalone_parens", "collapse_whitespace_hyphens_missing",
       "sanity_check_3",
       "missing_alone_in_enclosure", "empty_enclosures",
       "collapse_whitespace_hyphens_missing",
       "sanity_check_final", "convert_special_tokens" >>

\* the loop `for func, desc in fns: df = df.apply(func, axis=1)` is at the
\* function named f
AtFn(f) == script = "clean" /\ pc \in 1..Len(fns) /\ fns[pc] = f

\* df.apply(F, axis=1)
Rows(F(_)) == [i \in 1..Len(df) |-> F(df[i])]

\* what the calls of one turn print
Printed(L(_)) == UNION {L(df[i]) : i \in 1..Len(df)}

DoubleAngleBrackets ==
    /\ AtFn("double_angle_brackets")
    /\ df' = Rows(double_angle_brackets)
    /\ log' = log
    /\ pc' = pc + 1
    /\ UNCHANGED << script, run >>
    /\ UNCHANGED << infile, glyph_vars, walk_vars, load_vars, lookup_vars >>

UpperBrackets ==
    /\ AtFn("upper_brackets")
    /\ df' = Rows(upper_brackets)
    /\ log' = log
    /\ pc' = pc + 1
    /\ UNCHANGED << script, run >>
    /\ UNCHANGED << infile, glyph_vars, walk_vars, load_vars, lookup_vars >>

DoubleCurlyBraces ==
    /\ AtFn("double_curly_braces")
    /\ df' = Rows(double_curly_braces)
    /\ log' = log \cup Printed(double_curly_braces_log)
    /\ pc' = pc + 1
    /\ UNCHANGED << script, run >>
    /\ UNCHANGED << infile, glyph_vars, walk_vars, load_vars, lookup_vars >>

Collapse ==
    /\ AtFn("collapse_whitespace_hyphens_missing")
    /\ df' = Rows(collapse_whitespace_hyphens_missing)
    /\ log' = log
    /\ pc' = pc + 1
    /\ UNCHANGED << script, run >>
    /\ UNCHANGED << infile, glyph_vars, walk_vars, load_vars, lookup_vars >>

SanityCheck1 ==
    /\ AtFn("sanity_check_1")
    /\ df' = df
    /\ log' = log \cup Printed(sanity_check_1_log)
    /\ pc' = pc + 1
    /\ UNCHANGED << script, run >>
    /\ UNCHANGED << infile, glyph_vars, walk_vars, load_vars, lookup_vars >>

CheckForUnmatchedBrackets ==
    /\ AtFn("check_for_unmatched_brackets")
    /\ df' = Rows(check_for_unmatched_brackets)
    /\ log' = log \cup Printed(check_for_unmatched_brackets_log)
    /\ pc' = pc + 1
    /\ UNCHANGED << script, run >>
    /\ UNCHANGED << infile, glyph_vars, walk_vars, load_vars, lookup_vars >>

FixEnclosureOrder ==
    /\ AtFn("fix_enclosure_order")
    /\ df' = Rows(fix_enclosure_order)
    /\ log' = log
    /\ pc' = pc + 1
    /\ UNCHANGED << script, run >>
    /\ UNCHANGED << infile, glyph_vars, walk_vars, load_vars, lookup_vars >>

SingleAngleBrackets ==
    /\ AtFn("single_angle_brackets")
    /\ df' = Rows(single_angle_brackets)
    /\ log' = log
    /\ pc' = pc + 1
    /\ UNCHANGED << script, run >>
    /\ UNCHANGED << infile, glyph_vars, walk_vars, load_vars, lookup_vars >>

Semicolons ==
    /\ AtFn("semicolons")
    /\ df' = Rows(semicolons)
    /\ log' = log
    /\ pc' = pc + 1
    /\ UNCHANGED << script, run >>
    /\ UNCHANGED << infile, glyph_vars, walk_vars, load_vars, lookup_vars >>

SingleCurlyBraces ==
    /\ AtFn("single_curly_braces")
    /\ df' = Rows(single_curly_braces)
    /\ log' = log
    /\ pc' = pc + 1
    /\ UNCHANGED << script, run >>
    /\ UNCHANGED << infile, glyph_vars, walk_vars, load_vars, lookup_vars >>

VerticalBars ==
    /\ AtFn("vertical_bars")
    /\ df' = Rows(vertical_bars)
    /\ log' = log \cup Printed(vertical_bars_log)
    /\ pc' = pc + 1
    /\ UNCHANGED << script, run >>
    /\ UNCHANGED << infile, glyph_vars, walk_vars, load_vars, lookup_vars >>

Parentheses ==
    /\ AtFn("parentheses")
    /\ df' = Rows(parentheses)
    /\ log' = log
    /\ pc' = pc + 1
    /\ UNCHANGED << script, run >>
    /\ UNCHANGED << infile, glyph_vars, walk_vars, load_vars, lookup_vars >>

SanityCheck2 ==
    /\ AtFn("sanity_check_2")
    /\ df' = df
    /\ log' = log \cup Printed(sanity_check_2_log)
    /\ pc' = pc + 1
    /\ UNCHANGED << script, run >>
    /\ UNCHANGED << infile, glyph_vars, walk_vars, load_vars, lookup_vars >>

SingleSquareBrackets ==
    /\ AtFn("single_square_brackets")
    /\ df' = Rows(single_square_brackets)
    /\ log' = log
    /\ pc' = pc + 1
    /\ UNCHANGED << script, run >>
    /\ UNCHANGED << infile, glyph_vars, walk_vars, load_vars, lookup_vars >>

XOn ==
    /\ AtFn("x_o_n")
    /\ df' = Rows(x_o_n)
    /\ log' = log
    /\ pc' = pc + 1
    /\ UNCHANGED << script, run >>
    /\ UNCHANGED << infile, glyph_vars, walk_vars, load_vars, lookup_vars >>

DollarSigns ==
    /\ AtFn("dollar_signs")
    /\ df' = Rows(dollar_signs)
    /\ log' = log \cup Printed(dollar_signs_log)
    /\ pc' = pc + 1
    /\ UNCHANGED << script, run >>
    /\ UNCHANGED << infile, glyph_vars, walk_vars, load_vars, lookup_vars >>

Ellipses ==
    /\ AtFn("ellipses")
    /\ df' = Rows(ellipses)
    /\ log' = log
    /\ pc' = pc + 1
    /\ UNCHANGED << script, run >>
    /\ UNCHANGED << infile, glyph_vars, walk_vars, load_vars, lookup_vars >>

StandaloneParens ==
    /\ AtFn("standalone_parens")
    /\ df' = Rows(standalone_parens)
    /\ log' = log
    /\ pc' = pc + 1
    /\ UNCHANGED << script, run >>
    /\ UNCHANGED << infile, glyph_vars, walk_vars, load_vars, lookup_vars >>

SanityCheck3 ==
    /\ AtFn("sanity_check_3")
    /\ df' = df
    /\ log' = log \cup Printed(sanity_check_3_log)
    /\ pc' = pc + 1
    /\ UNCHANGED << script, run >>
    /\ UNCHANGED << infile, glyph_vars, walk_vars, load_vars, lookup_vars >>

MissingAloneInEnclosure ==
    /\ AtFn("missing_alone_in_enclosure")
    /\ df' = Rows(missing_alone_in_enclosure)
    /\ log' = log
    /\ pc' = pc + 1
    /\ UNCHANGED << script, run >>
    /\ UNCHANGED << infile, glyph_vars, walk_vars, load_vars, lookup_vars >>

EmptyEnclosures ==
    /\ AtFn("empty_enclosures")
    /\ df' = Rows(empty_enclosures)
    /\ log' = log
    /\ pc' = pc + 1
    /\ UNCHANGED << script, run >>
    /\ UNCHANGED << infile, glyph_vars, walk_vars, load_vars, lookup_vars >>

SanityCheckFinal ==
    /\ AtFn("sanity_check_final")
    /\ df' = df
    /\ log' = log \cup Printed(sanity_check_final_log)
    /\ pc' = pc + 1
    /\ UNCHANGED << script, run >>
    /\ UNCHANGED << infile, glyph_vars, walk_vars, load_vars, lookup_vars >>

ConvertSpecialTokens ==
    /\ AtFn("convert_special_tokens")
    /\ df' = Rows(convert_special_tokens)
    /\ log' = log
    /\ pc' = pc + 1
    /\ UNCHANGED << script, run >>
    /\ UNCHANGED << infile, glyph_vars, walk_vars, load_vars, lookup_vars >>

\* after the loop: the rows with nothing but special tokens are removed and
\* the frame is written
RemoveTablets ==
    /\ script = "clean"
    /\ pc = Len(fns) + 1
    /\ df' = remove_tablets_with_no_transliteration(df)
    /\ pc' = pc + 1
    /\ UNCHANGED << script, log, run >>
    /\ infile' = df'
    /\ UNCHANGED << glyph_vars, walk_vars, load_vars, lookup_vars >>

CleanDone == script = "clean" /\ pc = Len(fns) + 2

NextClean ==
    \/ DoubleAngleBrackets \/ UpperBrackets \/ DoubleCurlyBraces \/ Collapse
    \/ SanityCheck1 \/ CheckForUnmatchedBrackets \/ FixEnclosureOrder
    \/ SingleAngleBrackets \/ Semicolons \/ SingleCurlyBraces \/ VerticalBars
    \/ Parentheses \/ SanityCheck2 \/ SingleSquareBrackets \/ XOn
    \/ DollarSigns \/ Ellipses \/ StandaloneParens \/ SanityCheck3
    \/ MissingAloneInEnclosure \/ EmptyEnclosures \/ SanityCheckFinal
    \/ ConvertSpecialTokens \/ RemoveTablets

\* main run again on what it wrote: the cleaned column is read as the
\* transliteration column of the next run
Rerun ==
    /\ CleanDone
    /\ run < MaxRuns
    /\ df' = [i \in 1..Len(df) |-> [df[i] EXCEPT !.transliteration = df[i][KEY]]]
    /\ pc' = 1
    /\ run' = run + 1
    /\ UNCHANGED << script, log >>
    /\ UNCHANGED << infile, glyph_vars, walk_vars, load_vars, lookup_vars >>

\* the transliteration column as read from INFILE: texts made of at most
\* MaxAtoms of the pieces below
Atoms ==
    { <<"a">>, <<"x">>, << HY >>, << SP >>, << NL >>, <<"[">>, <<"]">>,
      <<"(">>, <<")">>, <<"<">>, <<">">>, <<"{">>, <<"}">>, <<"$">>, <<";">>,
      <<"|">>, <<".">>, <<"(","[">>, <<"]",")">>, <<"(",")">>, MISSING, SURFACE }

RECURSIVE Texts(_)
Texts(n) ==
    IF n = 0 THEN { <<>> }
    ELSE LET shorter == Texts(n - 1)
         IN  shorter \cup {t \o a : t \in shorter, a \in Atoms}

Ids == {"P000001"}

\* df[KEY] = df["transliteration"]
NewRow(i, t) == [id |-> i, transliteration |-> t, transliteration_clean |-> t]

InitClean ==
    /\ script = "clean"
    /\ df \in {<< NewRow(i, t) >> : i \in Ids, t \in Texts(MaxAtoms)}
    /\ pc = 1
    /\ log = {}
    /\ run = 1
    /\ infile = <<>>
    /\ lists = NoLists
    /\ glyph_to_observed_readings = << >>
    /\ resolved = {}
    /\ cdl = <<>>
    /\ tokens = <<>>
    /\ langs = {}
    /\ corpus = <<>>
    /\ texts = <<>>
    /\ failed = <<>>
    /\ osl = <<>>
    /\ morpheme_to_glyph_names = << >>
    /\ glyph_name_to_glyphs = << >>
    /\ outfiles = <<>>

Spec == InitClean /\ [][NextClean]_vars

SpecRerun == InitClean /\ [][NextClean \/ Rerun]_vars

----------------------------------------------------------------------------
(* The Enclosure Normalizer run on its own output                          *)

\* the letters that _x_o_n reads as placeholders of missing text
Placeholders == {"x", "X", "o", "O", "n", "N"}

\* a text of sign text, hyphens, spaces and newlines only: no marker token,
\* no enclosure, dollar, bar, semicolon or dot, and no placeholder letter
Plain(t) ==
    Range(t) \subseteq
        (((LowerCase \cup UpperCase \cup Digit) \ Placeholders) \cup {HY, SP, NL})

\* the second run of the phase sequence has ended
SecondRunDone == CleanDone /\ run >= 2

\* C1, as stated: the phase sequence run again on a normalized transliteration
\* returns that transliteration, whatever it holds (marker tokens included)
C1_IdempotentOnOutputs ==
    SecondRunDone => \A i \in 1..Len(df) : df[i][KEY] = df[i].transliteration

\* C1, amended: the phase sequence run again on a normalized transliteration
\* that is plain (sign text without placeholder letters, hyphens, spaces and
\* newlines, no marker token) returns that transliteration
C1_IdempotentOnPlainOutputs ==
    SecondRunDone =>
        \A i \in 1..Len(df) :
            Plain(df[i].transliteration) => df[i][KEY] = df[i].transliteration

\* the second run has ended on a plain output that holds sign text, a
\* hyphen and a newline
C1_PlainOutputRerun ==
    /\ SecondRunDone
    /\ Len(df) = 1
    /\ Plain(df[1].transliteration)
    /\ {"a", HY, NL} \subseteq Range(df[1].transliteration)
    /\ df[1][KEY] = df[1].transliteration

----------------------------------------------------------------------------
(* Token closure                                                           *)

\* the raw source markers other than the angle brackets
RawMarkers == { <<"{","{">>, <<"}","}">>, <<"$">>, <<"[">>, <<"]">> }

\* a text without the external marker tokens that are written with angle
\* brackets
OutsideMarkerTokens(t) ==
    ReplaceEach(t, << SURFACE_AFTER, COLUMN_AFTER, BLANK_SPACE_AFTER, RULING_AFTER >>,
                <<>>)

\* the raw source markers a text holds: the angle brackets count outside a
\* marker token only
RawMarkersIn(t) ==
    {m \in RawMarkers : Contains(t, m)}
      \cup {m \in { <<"<">>, <<">">> } : Contains(OutsideMarkerTokens(t), m)}

\* C2, as stated: no raw source marker is left in a final normalized
\* transliteration
C2_NoRawMarkerSurvives ==
    CleanDone => \A i \in 1..Len(df) : RawMarkersIn(df[i][KEY]) = {}

\* C2, amended: a raw source marker is left in a final normalized
\* transliteration only when the final sanity check has printed it for the
\* record
C2_RawMarkersAreReported ==
    CleanDone =>
        \A i \in 1..Len(df) :
            \A m \in RawMarkersIn(df[i][KEY]) :
                << df[i].id, "Disallowed character", m >> \in log

\* a record that came with a square bracket and an angle bracket ends with
\* no raw marker and no diagnostic of the final sanity check
C2_MarkersRemoved ==
    /\ CleanDone
    /\ Len(df) = 1
    /\ {"[", "<"} \subseteq Range(df[1].transliteration)
    /\ RawMarkersIn(df[1][KEY]) = {}
    /\ \A e \in log : e[2] # "Disallowed character"

----------------------------------------------------------------------------
(* Bracket balance                                                         *)

\* the projection of each line of a text onto the square brackets
Projections(t) ==
    LET lines == Split(t, << NL >>)
    IN  [k \in 1..Len(lines) |-> Filter(lines[k], {"[", "]"})]

\* every line's projection reduces to the empty string when the adjacent
\* pairs are removed again and again
Balanced(t) == \A k \in 1..Len(Projections(t)) : RemovePairs(Projections(t)[k]) = <<>>

\* the enclosure-reordering phase has just been applied
AfterFixEnclosureOrder ==
    script = "clean" /\ pc \in 2..(Len(fns) + 1) /\ fns[pc - 1] = "fix_enclosure_order"

----------------------------------------------------------------------------
(* 5_add_glyphs: constants                                                 *)
(*                                                                         *)
(* The lookup tables are read from files built from the sign list; the     *)
(* tables below are small ones with one entry for every way a morpheme is  *)
(* treated.  A cuneiform glyph is written "g_" and the name of its sign;   *)
(* "sz", "ng" and "_2" stand for s-caron, eng and subscript two.           *)

\* the characters of a string of this module
Chars(str) == [i \in 1..Len(str) |-> SubSeq(str, i, i)]

SPECIAL_TOKENS ==
    { Chars("<SURFACE>"), Chars("<COLUMN>"), Chars("<BLANK_SPACE>"),
      Chars("<RULING>"), Chars("..."), Chars("\n"), Chars("<unk>") }

UNK == Chars("<unk>")

\* a dict: a sequence of << key, value >> pairs with distinct keys
Keys(d) == {d[i][1] : i \in 1..Len(d)}
Get(d, k) == d[CHOOSE i \in 1..Len(d) : d[i][1] = k][2]

DISZ == Chars("di") \o <<"sz">>

\* reading -> list of glyph names
READING_TO_GLYPH_NAME ==
    << << Chars("lugal"), << Chars("LUGAL") >> >>,
       << Chars("la"), << Chars("LA") >> >>,
       << Chars("ka"), << Chars("KA") >> >>,
       << Chars("ta"), << Chars("TA") >> >>,
       << Chars("ki"), << Chars("KI") >> >>,
       << Chars("inim"), << Chars("KA") >> >>,
       << Chars("du"), << Chars("DU"), Chars("KAS") >> >>,
       << Chars("un"), << Chars("UN") >> >>,
       << Chars("ba"), << Chars("BA") >> >>,
       << Chars("bad"), << Chars("BAD") >> >>,
       << Chars("zi"), << Chars("ZI") >> >>,
       << Chars("1(") \o DISZ \o Chars(")"), << Chars("DISZ") >> >>,
       << Chars("1(u)"), << Chars("U") >> >>,
       << Chars("nn"), << Chars("N") >> >> >>

\* glyph name -> unicode: BA has no glyph, the glyph of BAD is a placeholder,
\* ZI is not in the table
GLYPH_NAME_TO_UNICODE ==
    << << Chars("LUGAL"), <<"g_LUGAL">> >>,
       << Chars("LA"), <<"g_LA">> >>,
       << Chars("KA"), <<"g_KA">> >>,
       << Chars("TA"), <<"g_TA">> >>,
       << Chars("KI"), <<"g_KI">> >>,
       << Chars("DU"), <<"g_DU">> >>,
       << Chars("KAS"), <<"g_KAS">> >>,
       << Chars("UN"), <<"g_UN">> >>,
       << Chars("KALAM@g"), <<"g_KALAM">> >>,
       << Chars("BA"), <<>> >>,
       << Chars("BAD"), <<"X">> >>,
       << Chars("DISZ"), <<"g_DISZ">> >>,
       << Chars("U"), <<"g_U">> >> >>

\* set of all glyph names
GLYPH_NAMES == Keys(GLYPH_NAME_TO_UNICODE)

\* glyph name -> readings: list(set(v)), of which only the length and, when
\* it is one, the element are used
GLYPH_NAME_TO_READINGS(glyph_name) ==
    {r \in Keys(READING_TO_GLYPH_NAME) :
        glyph_name \in Range(Get(READING_TO_GLYPH_NAME, r))}

NUMBERS_TO_READINGS ==
    << << Chars("1"), Chars("1(") \o DISZ \o Chars(")") >>,
       << Chars("10"), Chars("1(u)") >>,
       << Chars("11"), Chars("1(u) 1(") \o DISZ \o Chars(")") >> >>

\* ALL_REPLACEMENTS, the tables one after the other: entries of
\* SIGN_LIST_REPLACEMENTS, GLYPH_NAME_REPLACEMENTS, READING_REPLACEMENTS and
\* NUM_REPLACEMENTS
ALL_REPLACEMENTS ==
    << << Chars("KWU147"), Chars("LIL") >>,
       << Chars("|TAB.BA|"), Chars("TAB BA") >>,
       << Chars("GAG"), Chars("KAK") >>,
       << Chars("GUB"), Chars("DU") >>,
       << Chars("babila"), Chars("babilim") >>,
       << Chars("+..."), Chars("...") >>,
       << Chars("...+"), Chars("...") >>,
       << Chars("@c"), <<>> >>,
       << Chars("@t"), <<>> >>,
       << Chars("@v"), <<>> >>,
       << Chars("@90"), <<>> >>,
       << Chars("1/2(a") \o <<"sz", ")">>, Chars("1/2") >> >>

SWAP_GLYPH_NAMES ==
    << << Chars("UN"), Chars("KALAM@g") >>,
       << Chars("LAK212"), Chars("|A.TU.GABA.LI") \o <<"SZ", "|">> >> >>

----------------------------------------------------------------------------
(* 5_add_glyphs: the Morpheme Segmenter                                    *)

\* str.lower() and str.isupper() on the letters of the model
UPPER == Chars("ABCDEFGHIJKLMNOPQRSTUVWXYZ") \o <<"SZ">>
LOWER == Chars("abcdefghijklmnopqrstuvwxyz") \o <<"sz", "ng">>

Lower(s) ==
    [i \in 1..Len(s) |->
        IF s[i] \in Range(UPPER)
        THEN LOWER[CHOOSE k \in 1..Len(UPPER) : UPPER[k] = s[i]]
        ELSE s[i]]

IsUpper(s) == Range(s) \cap Range(UPPER) # {} /\ Range(s) \cap Range(LOWER) = {}

\* the lists of a list of lists, one after the other
RECURSIVE Flatten(_)
Flatten(ss) == IF ss = <<>> THEN <<>> ELSE ss[1] \o Flatten(Tail(ss))

NonEmpty(ss) == SelectSeq(ss, LAMBDA s : s # <<>>)

\* re.split(r, s) for an r that matches no empty text: the texts between the
\* matches and, when r is one capturing group (keep), the matches too
RECURSIVE ReSplitFrom(_, _, _, _)
ReSplitFrom(r, s, from, keep) ==
    LET m == Search(r, s, from)
    IN  IF m[1] = 0 THEN << From(s, from) >>
        ELSE << SubSeq(s, from, m[1] - 1) >>
               \o (IF keep THEN << SubSeq(s, m[1], m[2] - 1) >> ELSE <<>>)
               \o ReSplitFrom(r, s, m[2], keep)

\* the segmenter with every determinative span kept as one morpheme
split_wordform_into_morphemes_spans_whole(wf) ==
    LET head == Split(wf, << HY >>)[1]
        wf_  == IF wf \in Keys(NUMBERS_TO_READINGS)
                THEN Get(NUMBERS_TO_READINGS, wf)
                ELSE IF head \in Keys(NUMBERS_TO_READINGS)
                THEN Get(NUMBERS_TO_READINGS, head) \o << HY >>
                         \o From(wf, Len(head) + 2)
                ELSE wf
        braces == Cat(<< Lit(<<"{">>), Lazy(NotCls({NL})), Lit(<<"}">>) >>)
        hyphen == Cat(<< Lit(<< HY >>),
                         NotAhead(Cat(<< Star(NotCls({"("})), Lit(<<")">>) >>)) >>)
        split1 == NonEmpty(ReSplitFrom(braces, wf_, 1, TRUE))
        split2 == NonEmpty(Flatten(The({
                      [k \in 1..Len(s) |-> Split(s[k], << SP >>)] :
                      s \in { split1 } })))
        split3 == NonEmpty(Flatten(The({
                      [k \in 1..Len(s) |->
                          IF MatchEnd(braces, s[k], 1) = Len(s[k]) + 1
                          THEN << s[k] >>
                          ELSE ReSplitFrom(hyphen, s[k], 1, FALSE)] :
                      s \in { split2 } })))
    IN  split3

split_wordform_into_morphemes(wf) ==
    LET head == Split(wf, << HY >>)[1]
        wf_  == IF wf \in Keys(NUMBERS_TO_READINGS)
                THEN Get(NUMBERS_TO_READINGS, wf)
                ELSE IF head \in Keys(NUMBERS_TO_READINGS)
                THEN Get(NUMBERS_TO_READINGS, head) \o << HY >>
                         \o From(wf, Len(head) + 2)
                ELSE wf
        braces == Cat(<< Lit(<<"{">>), Lazy(NotCls({NL})), Lit(<<"}">>) >>)
        hyphen == Cat(<< Lit(<< HY >>),
                         NotAhead(Cat(<< Star(NotCls({"("})), Lit(<<")">>) >>)) >>)
        split1 == NonEmpty(ReSplitFrom(braces, wf_, 1, TRUE))
        split2 == NonEmpty(Flatten(The({
                      [k \in 1..Len(s) |-> Split(s[k], << SP >>)] :
                      s \in { split1 } })))
        split3 == NonEmpty(Flatten(The({
                      [k \in 1..Len(s) |-> ReSplitFrom(hyphen, s[k], 1, FALSE)] :
                      s \in { split2 } })))
    IN  split3

----------------------------------------------------------------------------
(* 5_add_glyphs: the Glyph Resolver                                        *)
(*                                                                         *)
(* A function of the source that appends to a diagnostic list returns, in  *)
(* the field notes, the << list, text >> pairs it appends.                 *)

NUMERIC_PATTERN ==
    Cat(<< Bol, Plus(Cls(Digit)),
           Opt(Cat(<< Lit(<<"/">>), Plus(Cls(Digit)) >>)),
           Opt(Cat(<< Lit(<<".">>), Plus(Cls(Digit)) >>)),
           Opt(Cat(<< Star(Cls(White)), Lit(<<"(">>), Plus(NotCls({")"})),
                      Lit(<<")">>) >>)),
           Eol >>)

Names(morpheme, names, notes) ==
    [morpheme |-> morpheme, names |-> names, notes |-> notes]

get_number_glyph_names(morpheme) ==
    IF morpheme \in Keys(READING_TO_GLYPH_NAME)
    THEN Names(morpheme, Get(READING_TO_GLYPH_NAME, morpheme), <<>>)
    ELSE IF Lower(morpheme) \in Keys(READING_TO_GLYPH_NAME)
    THEN Names(Lower(morpheme), Get(READING_TO_GLYPH_NAME, Lower(morpheme)), <<>>)
    ELSE IF morpheme \in GLYPH_NAMES
    THEN Names(morpheme, << morpheme >>, <<>>)
    ELSE Names(morpheme, <<>>, << << "unk_readings_num", morpheme >> >>)

\* the branch for reading(NAME) with the reverse lookup of NAME tried first
parenthetical_glyph_names_name_first(morpheme) ==
    LET split_      == Split(morpheme, <<"(">>)
        morpheme_   == split_[1]
        glyph_name_ == Replace(split_[2], <<")">>, <<>>)
        known       == morpheme_ \in Keys(READING_TO_GLYPH_NAME)
        possible    == Get(READING_TO_GLYPH_NAME, morpheme_)
        readings    == GLYPH_NAME_TO_READINGS(glyph_name_)
    IN  IF Cardinality(readings) = 1
        THEN << Names(CHOOSE r \in readings : TRUE, << glyph_name_ >>, <<>>) >>
        ELSE IF known /\ Len(possible) = 1
        THEN << Names(morpheme_, possible, <<>>) >>
        ELSE IF known /\ glyph_name_ \in Range(possible)
        THEN << Names(morpheme_, << glyph_name_ >>, <<>>) >>
        ELSE <<>>

\* the branch of _get_morpheme_glyph_names for reading(NAME); << >> stands
\* for falling through it
parenthetical_glyph_names(morpheme) ==
    LET split_      == Split(morpheme, <<"(">>)
        morpheme_   == split_[1]
        glyph_name_ == Replace(split_[2], <<")">>, <<>>)
        known       == morpheme_ \in Keys(READING_TO_GLYPH_NAME)
        possible    == Get(READING_TO_GLYPH_NAME, morpheme_)
        readings    == GLYPH_NAME_TO_READINGS(glyph_name_)
    IN  IF known /\ Len(possible) = 1
        THEN << Names(morpheme_, possible, <<>>) >>
        ELSE IF known /\ glyph_name_ \in Range(possible)
        THEN << Names(morpheme_, << glyph_name_ >>, <<>>) >>
        ELSE IF Cardinality(readings) = 1
        THEN << Names(CHOOSE r \in readings : TRUE, << glyph_name_ >>, <<>>) >>
        ELSE <<>>

get_morpheme_glyph_names(morpheme0) ==
    LET morpheme == IF morpheme0 = <<"g", "e", "sz", "_2">>
                    THEN <<"ng", "e", "sz", "_2">> ELSE morpheme0
        morpheme_ == Replace(Replace(morpheme, <<"{">>, <<>>), <<"}">>, <<>>)
        paren == IF "(" \in Range(morpheme) /\ ")" \in Range(morpheme)
                 THEN parenthetical_glyph_names(morpheme) ELSE <<>>
    IN  IF morpheme \in {<<"x">>, <<"n">>, <<"X">>, <<"N">>}
        THEN Names(Chars("..."), << Chars("...") >>, <<>>)
        ELSE IF MatchEnd(NUMERIC_PATTERN, morpheme, 1) # 0
        THEN get_number_glyph_names(morpheme)
        ELSE IF morpheme \in GLYPH_NAMES
        THEN Names(UNK, << morpheme >>, <<>>)
        ELSE IF morpheme_ \in Keys(READING_TO_GLYPH_NAME)
        THEN Names(morpheme, Get(READING_TO_GLYPH_NAME, morpheme_), <<>>)
        ELSE IF IsUpper(morpheme)
        THEN IF Lower(morpheme) \in Keys(READING_TO_GLYPH_NAME)
             THEN Names(UNK, Get(READING_TO_GLYPH_NAME, Lower(morpheme)), <<>>)
             ELSE Names(UNK, <<>>, << << "unk_readings_sign_name", morpheme >> >>)
        ELSE IF paren # <<>>
        THEN paren[1]
        ELSE Names(morpheme, <<>>, << << "unk_reading_other", morpheme >> >>)

\* the glyph returned although the table has none for the name
glyph_name_to_unicode_unchecked(glyph_name) ==
    IF glyph_name \in SPECIAL_TOKENS
    THEN [unicode |-> glyph_name, notes |-> <<>>]
    ELSE IF glyph_name \notin Keys(GLYPH_NAME_TO_UNICODE)
    THEN [unicode |-> UNK, notes |-> << << "glyph_names_not_in_map", glyph_name >> >>]
    ELSE [unicode |-> Get(GLYPH_NAME_TO_UNICODE, glyph_name),
          notes |-> << << "glyph_names_found_unicode", glyph_name >> >>]

glyph_name_to_unicode(glyph_name) ==
    IF glyph_name \in SPECIAL_TOKENS
    THEN [unicode |-> glyph_name, notes |-> <<>>]
    ELSE IF glyph_name \notin Keys(GLYPH_NAME_TO_UNICODE)
    THEN [unicode |-> UNK, notes |-> << << "glyph_names_not_in_map", glyph_name >> >>]
    ELSE IF Get(GLYPH_NAME_TO_UNICODE, glyph_name) = <<>>
    THEN [unicode |-> UNK, notes |-> << << "glyph_names_no_unicode", glyph_name >> >>]
    ELSE [unicode |-> Get(GLYPH_NAME_TO_UNICODE, glyph_name),
          notes |-> << << "glyph_names_found_unicode", glyph_name >> >>]

\* among several candidates, the one whose glyph has been observed
accepted_glyph_name_observed(possible_glyph_names) ==
    LET seen == {k \in 1..Len(possible_glyph_names) :
                    /\ possible_glyph_names[k] \in Keys(GLYPH_NAME_TO_UNICODE)
                    /\ Get(GLYPH_NAME_TO_UNICODE, possible_glyph_names[k])
                           \in DOMAIN glyph_to_observed_readings}
    IN  IF Len(possible_glyph_names) = 1 THEN possible_glyph_names[1]
        ELSE IF Cardinality(seen) = 1
        THEN possible_glyph_names[CHOOSE k \in seen : TRUE]
        ELSE UNK

\* only morphemes with exactly one glyph name are accepted
accepted_glyph_name(possible_glyph_names) ==
    IF Len(possible_glyph_names) # 1 THEN UNK ELSE possible_glyph_names[1]

\* the two loops for one morpheme, with the sign name and the glyph kept
\* when only the display text of the morpheme is unknown
morpheme_glyph_data_sign_kept(m) ==
    The({ LET glyph_name == accepted_glyph_name(r.names)
              morpheme   == IF glyph_name = UNK THEN UNK ELSE r.morpheme
              note       == << << IF glyph_name = UNK THEN "unk_readings_all"
                                  ELSE "non_unk_readings_all", morpheme >> >>
              swapped    == IF glyph_name \in Keys(SWAP_GLYPH_NAMES)
                            THEN Get(SWAP_GLYPH_NAMES, glyph_name) ELSE glyph_name
              u          == glyph_name_to_unicode(swapped)
          IN  IF glyph_name = <<"N">>
              THEN [data |-> <<>>, notes |-> r.notes \o note]
              ELSE IF glyph_name = UNK
              THEN [data |-> << << UNK, UNK, UNK >> >>, notes |-> r.notes \o note]
              ELSE IF u.unicode = UNK \/ "X" \in Range(u.unicode)
              THEN [data |-> << << UNK, UNK, UNK >> >>,
                    notes |-> r.notes \o note \o u.notes]
              ELSE [data |-> << << morpheme, swapped, u.unicode >> >>,
                    notes |-> r.notes \o note \o u.notes] :
          r \in { get_morpheme_glyph_names(m) } })

\* the two loops with a glyph name taken as it comes from the table, usable
\* or not
morpheme_glyph_data_any_glyph(m) ==
    The({ LET glyph_name == accepted_glyph_name(r.names)
              morpheme   == IF glyph_name = UNK THEN UNK ELSE r.morpheme
              note       == << << IF glyph_name = UNK THEN "unk_readings_all"
                                  ELSE "non_unk_readings_all", morpheme >> >>
              swapped    == IF glyph_name \in Keys(SWAP_GLYPH_NAMES)
                            THEN Get(SWAP_GLYPH_NAMES, glyph_name) ELSE glyph_name
              u          == glyph_name_to_unicode(swapped)
          IN  IF glyph_name = <<"N">>
              THEN [data |-> <<>>, notes |-> r.notes \o note]
              ELSE IF morpheme = UNK
              THEN [data |-> << << UNK, UNK, UNK >> >>, notes |-> r.notes \o note]
              ELSE [data |-> << << morpheme, swapped, u.unicode >> >>,
                    notes |-> r.notes \o note \o u.notes] :
          r \in { get_morpheme_glyph_names(m) } })

\* the two loops with only the glyph made unknown when the sign has no
\* usable glyph
morpheme_glyph_data_glyph_only_unknown(m) ==
    The({ LET glyph_name == accepted_glyph_name(r.names)
              morpheme   == IF glyph_name = UNK THEN UNK ELSE r.morpheme
              note       == << << IF glyph_name = UNK THEN "unk_readings_all"
                                  ELSE "non_unk_readings_all", morpheme >> >>
              swapped    == IF glyph_name \in Keys(SWAP_GLYPH_NAMES)
                            THEN Get(SWAP_GLYPH_NAMES, glyph_name) ELSE glyph_name
              u          == glyph_name_to_unicode(swapped)
          IN  IF glyph_name = <<"N">>
              THEN [data |-> <<>>, notes |-> r.notes \o note]
              ELSE IF morpheme = UNK
              THEN [data |-> << << UNK, UNK, UNK >> >>, notes |-> r.notes \o note]
              ELSE IF u.unicode = UNK \/ "X" \in Range(u.unicode)
              THEN [data |-> << << morpheme, swapped, UNK >> >>,
                    notes |-> r.notes \o note \o u.notes]
              ELSE [data |-> << << morpheme, swapped, u.unicode >> >>,
                    notes |-> r.notes \o note \o u.notes] :
          r \in { get_morpheme_glyph_names(m) } })

\* the two loops of _get_wordform_glyph_data for one morpheme: the triples
\* it adds to the result (none, or one) and what it appends to the lists
morpheme_glyph_data(m) ==
    The({ LET glyph_name == accepted_glyph_name(r.names)
              morpheme   == IF glyph_name = UNK THEN UNK ELSE r.morpheme
              note       == << << IF glyph_name = UNK THEN "unk_readings_all"
                                  ELSE "non_unk_readings_all", morpheme >> >>
              swapped    == IF glyph_name \in Keys(SWAP_GLYPH_NAMES)
                            THEN Get(SWAP_GLYPH_NAMES, glyph_name) ELSE glyph_name
              u          == glyph_name_to_unicode(swapped)
          IN  IF glyph_name = <<"N">>
              THEN [data |-> <<>>, notes |-> r.notes \o note]
              ELSE IF morpheme = UNK
              THEN [data |-> << << UNK, UNK, UNK >> >>, notes |-> r.notes \o note]
              ELSE IF u.unicode = UNK \/ "X" \in Range(u.unicode)
              THEN [data |-> << << UNK, UNK, UNK >> >>,
                    notes |-> r.notes \o note \o u.notes]
              ELSE [data |-> << << morpheme, swapped, u.unicode >> >>,
                    notes |-> r.notes \o note \o u.notes] :
          r \in { get_morpheme_glyph_names(m) } })

RECURSIVE morphemes_glyph_data(_)
morphemes_glyph_data(morphemes) ==
    IF morphemes = <<>> THEN [data |-> <<>>, notes |-> <<>>]
    ELSE The({ [data |-> first.data \o rest.data,
                 notes |-> first.notes \o rest.notes] :
               first \in { morpheme_glyph_data(morphemes[1]) },
               rest \in { morphemes_glyph_data(Tail(morphemes)) } })

\* the two loops with the morphemes of unknown sign name left out
get_wordform_glyph_data_known_only(wordform) ==
    IF wordform \in SPECIAL_TOKENS
    THEN [data |-> << << wordform, wordform, wordform >> >>, notes |-> <<>>]
    ELSE The({ [data  |-> SelectSeq(r.data, LAMBDA item : item[2] # UNK),
                notes |-> r.notes] :
               r \in { morphemes_glyph_data(split_wordform_into_morphemes(wordform)) } })

get_wordform_glyph_data(wordform) ==
    IF wordform \in SPECIAL_TOKENS
    THEN [data |-> << << wordform, wordform, wordform >> >>, notes |-> <<>>]
    ELSE morphemes_glyph_data(split_wordform_into_morphemes(wordform))

----------------------------------------------------------------------------
(* 5_add_glyphs: _add_glyphs_to_row                                        *)

Column(data, k) == [j \in 1..Len(data) |-> data[j][k]]

\* the sign names of a wordform joined like its morphemes
wordform_strings_hyphens(data) ==
    << Join(Column(data, 1), << HY >>) \o << SP >>,
       Join(Column(data, 2), << HY >>) \o << SP >>,
       Join(Column(data, 3), <<>>) \o << SP >> >>

\* what a wordform adds to transliteration, glyph_names and glyphs
wordform_strings(data) ==
    << Join(Column(data, 1), << HY >>) \o << SP >>,
       Join(Column(data, 2), << SP >>) \o << SP >>,
       Join(Column(data, 3), <<>>) \o << SP >> >>

\* text.split(" ") of the text made ready, without the empty and bar items
Wordforms(text) ==
    LET text1 == Replace(text, << NL >>, << SP, NL, SP >>)
        text2 == Replace(text1, Chars("..."), Chars(" ... "))
        text3 == Sub(Plus(Lit(<< SP >>)), << SP >>, text2, 0, 0)
    IN  SelectSeq(Split(text3, << SP >>),
                  LAMBDA wf : wf # <<>> /\ wf # <<"|">> /\ wf # <<".", "|">>)

\* the loop over the wordforms with every item of the data counted as an
\* observed reading
RECURSIVE add_wordforms_all_observed(_)
add_wordforms_all_observed(wordforms) ==
    IF wordforms = <<>>
    THEN [strings |-> << <<>>, <<>>, <<>> >>, notes |-> <<>>, observed |-> <<>>]
    ELSE The({ LET s == wordform_strings(d.data)
               IN  [strings  |-> [k \in 1..3 |-> s[k] \o rest.strings[k]],
                    notes    |-> d.notes \o rest.notes,
                    observed |-> [j \in 1..Len(d.data) |->
                                     << d.data[j][3], d.data[j][1] >>]
                                     \o rest.observed] :
               d \in { get_wordform_glyph_data(wordforms[1]) },
               rest \in { add_wordforms_all_observed(Tail(wordforms)) } })

\* the loop over the wordforms: the three strings, the appends to the lists
\* and the << glyph, morpheme >> pairs counted as observed readings
RECURSIVE add_wordforms(_)
add_wordforms(wordforms) ==
    IF wordforms = <<>>
    THEN [strings |-> << <<>>, <<>>, <<>> >>, notes |-> <<>>, observed |-> <<>>]
    ELSE The({ LET s    == wordform_strings(d.data)
                   seen == SelectSeq(d.data,
                                     LAMBDA item : item[1] \notin SPECIAL_TOKENS)
               IN  [strings  |-> [k \in 1..3 |-> s[k] \o rest.strings[k]],
                    notes    |-> d.notes \o rest.notes,
                    observed |-> [j \in 1..Len(seen) |->
                                     << seen[j][3], seen[j][1] >>]
                                     \o rest.observed] :
               d \in { get_wordform_glyph_data(wordforms[1]) },
               rest \in { add_wordforms(Tail(wordforms)) } })

add_glyphs_to_row(row) ==
    The({ [row |-> [id |-> row.id,
                    transliteration |-> Strip(r.strings[1]),
                    glyph_names |-> Strip(r.strings[2]),
                    glyphs |-> Strip(r.strings[3])],
           notes |-> r.notes,
           observed |-> r.observed] :
          r \in { add_wordforms(Wordforms(row.transliteration)) } })

\* list.append for every << list, text >> of notes
RECURSIVE Appended(_, _)
Appended(ls, notes) ==
    IF notes = <<>> THEN ls
    ELSE Appended([ls EXCEPT ![notes[1][1]] = Append(@, notes[1][2])], Tail(notes))

\* glyph_to_observed_readings[glyph][morpheme] = 1 for every pair
RECURSIVE ObservedOnce(_, _)
ObservedOnce(g, pairs) ==
    IF pairs = <<>> THEN g
    ELSE LET glyph    == pairs[1][1]
             morpheme == pairs[1][2]
             counter  == IF glyph \in DOMAIN g THEN g[glyph] ELSE << >>
             counter_ == [x \in DOMAIN counter \cup {morpheme} |->
                             IF x = morpheme THEN 1 ELSE counter[x]]
         IN  ObservedOnce([x \in DOMAIN g \cup {glyph} |->
                              IF x = glyph THEN counter_ ELSE g[x]], Tail(pairs))

\* glyph_to_observed_readings[glyph][morpheme] += 1 for every pair
RECURSIVE Observed(_, _)
Observed(g, pairs) ==
    IF pairs = <<>> THEN g
    ELSE LET glyph    == pairs[1][1]
             morpheme == pairs[1][2]
             counter  == IF glyph \in DOMAIN g THEN g[glyph] ELSE << >>
             count    == IF morpheme \in DOMAIN counter THEN counter[morpheme] ELSE 0
             counter_ == [x \in DOMAIN counter \cup {morpheme} |->
                             IF x = morpheme THEN count + 1 ELSE counter[x]]
         IN  Observed([x \in DOMAIN g \cup {glyph} |->
                          IF x = glyph THEN counter_ ELSE g[x]], Tail(pairs))

\* the morphemes of a row that are resolved, each with its triples
Resolutions(row) ==
    LET wordforms == SelectSeq(Wordforms(row.transliteration),
                               LAMBDA wf : wf \notin SPECIAL_TOKENS)
        morphemes == Flatten(The({
                         [k \in 1..Len(w) |-> split_wordform_into_morphemes(w[k])] :
                         w \in { wordforms } }))
    IN  {<< m, morpheme_glyph_data(m).data >> : m \in Range(morphemes)}

----------------------------------------------------------------------------
(* 5_add_glyphs: main                                                      *)

\* the replacements of "(3) Postprocessing" made on the transliteration with
\* regex=False, without the two around the unknown token
POSTPROCESSING_REPLACEMENTS_no_unk ==
    << << Chars("-{"), Chars("{") >>,
       << Chars("}-"), Chars("}") >> >>

\* the replacements of "(3) Postprocessing" made on the transliteration with
\* regex=False
POSTPROCESSING_REPLACEMENTS ==
    << << Chars("-{"), Chars("{") >>,
       << Chars("}-"), Chars("}") >>,
       << Chars("<unk>-"), Chars("<unk> ") >>,
       << Chars("-<unk>"), Chars(" <unk>") >> >>

postprocessing(row) ==
    LET newline  == Cat(<< Star(Lit(<< SP >>)), Lit(<< NL >>), Star(Lit(<< SP >>)) >>)
        ellipsis == Plus(Cat(<< Star(Lit(<< SP >>)), Lit(Chars("...")),
                                Star(Lit(<<".">>)), Star(Lit(<< SP >>)) >>))
        t1 == Sub(newline, << NL >>, row.transliteration, 0, 0)
        t2 == ReplacePairs(t1, POSTPROCESSING_REPLACEMENTS)
    IN  [id |-> row.id,
         transliteration |-> Sub(ellipsis, Chars("..."), t2, 0, 0),
         glyph_names |-> Sub(ellipsis, Chars("..."), row.glyph_names, 0, 0),
         glyphs |-> Replace(Sub(ellipsis, Chars("..."), row.glyphs, 0, 0),
                            << SP >>, <<>>)]

\* the rows of d at the indices of keep, in their order
RECURSIVE RowsAt(_, _, _)
RowsAt(d, keep, i) ==
    IF i > Len(d) THEN <<>>
    ELSE (IF i \in keep THEN << d[i] >> ELSE <<>>) \o RowsAt(d, keep, i + 1)

\* the last row of every value kept
drop_duplicates_keep_last(d, key) ==
    RowsAt(d, {i \in 1..Len(d) : \A j \in (i + 1)..Len(d) : d[j][key] # d[i][key]}, 1)

\* df.drop_duplicates(subset=[key]): the first row of every value is kept
drop_duplicates(d, key) ==
    RowsAt(d, {i \in 1..Len(d) : \A j \in 1..(i - 1) : d[j][key] # d[i][key]}, 1)

\* read_csv(INFILE), the cleaned column renamed, and ALL_REPLACEMENTS
ReadInfile ==
    /\ CleanDone
    /\ df' = [i \in 1..Len(infile) |->
                 [id |-> infile[i].id,
                  transliteration |-> ReplacePairs(infile[i][KEY], ALL_REPLACEMENTS)]]
    /\ script' = "add_glyphs"
    /\ pc' = 1
    /\ UNCHANGED << log, run, infile, glyph_vars, walk_vars, load_vars, lookup_vars >>

\* df.progress_apply(_add_glyphs_to_row, axis=1), row by row
AddGlyphsToRow ==
    /\ script = "add_glyphs"
    /\ pc \in 1..Len(df)
    /\ \E r \in { add_glyphs_to_row(df[pc]) } :
           /\ df' = [df EXCEPT ![pc] = r.row]
           /\ lists' = Appended(lists, r.notes)
           /\ glyph_to_observed_readings' =
                  Observed(glyph_to_observed_readings, r.observed)
    /\ resolved' = resolved \cup Resolutions(df[pc])
    /\ pc' = pc + 1
    /\ UNCHANGED << script, log, run, infile, walk_vars, load_vars, lookup_vars >>

Postprocessing ==
    /\ script = "add_glyphs"
    /\ pc = Len(df) + 1
    /\ df' = Rows(postprocessing)
    /\ script' = "drop_rows_with_identical_transliterations"
    /\ UNCHANGED << pc, log, run, infile, glyph_vars, walk_vars, load_vars, lookup_vars >>

DropRowsWithIdenticalTransliterations ==
    /\ script = "drop_rows_with_identical_transliterations"
    /\ df' = drop_duplicates(df, "transliteration")
    /\ log' = log \cup {<< "identical transliterations", "Rows dropped",
                          Len(df) - Len(df') >>}
    /\ script' = "drop_rows_with_identical_glyphs"
    /\ UNCHANGED << pc, run, infile, glyph_vars, walk_vars, load_vars, lookup_vars >>

\* the second drop, after which the frame is written
DropRowsWithIdenticalGlyphs ==
    /\ script = "drop_rows_with_identical_glyphs"
    /\ df' = drop_duplicates(df, "glyphs")
    /\ log' = log \cup {<< "identical glyphs", "Rows dropped",
                          Len(df) - Len(df') >>}
    /\ script' = "written"
    /\ UNCHANGED << pc, run, infile, glyph_vars, walk_vars, load_vars, lookup_vars >>

GlyphsDone == script = "written"

NextGlyphs ==
    \/ ReadInfile \/ AddGlyphsToRow \/ Postprocessing
    \/ DropRowsWithIdenticalTransliterations \/ DropRowsWithIdenticalGlyphs

\* the wordforms of the records: resolvable readings, homophones, an
\* ambiguous reading, readings whose sign has no usable glyph, sign names,
\* a determinative, a number, a trailing hyphen, a placeholder, two
\* placeholders before a determinative and a marker
InputWordforms ==
    { Chars("lugal-la-ka"), Chars("zzz-ta"), Chars("ka"), Chars("inim"),
      Chars("du-du(KAS)"), Chars("du"), Chars("KA"), Chars("GUB"), Chars("un"),
      Chars("ba"), Chars("bad"), Chars("zi"), Chars("lugal{ki}"),
      Chars("10-ta"), Chars("ka-"), Chars("x"), Chars("x-x{ki}"), SURFACE }

MaxWordforms == 2

RowIds == << "P000001", "P000002", "P000003", "P000004" >>

\* the frames of n wordforms: a wordform follows the one before it in the
\* same line, in the next line, or in the next record
RECURSIVE Frames(_)
Frames(n) ==
    IF n = 1 THEN { << w >> : w \in InputWordforms }
    ELSE LET shorter == Frames(n - 1)
         IN  UNION { { Append(f, w),
                       [f EXCEPT ![Len(f)] = @ \o << SP >> \o w],
                       [f EXCEPT ![Len(f)] = @ \o << NL >> \o w] } :
                     f \in shorter, w \in InputWordforms }

InitPipeline ==
    /\ script = "clean"
    /\ df \in { [i \in 1..Len(f) |-> NewRow(RowIds[i], f[i])] :
                f \in UNION { Frames(n) : n \in 1..MaxWordforms } }
    /\ pc = 1
    /\ log = {}
    /\ run = 1
    /\ infile = <<>>
    /\ lists = NoLists
    /\ glyph_to_observed_readings = << >>
    /\ resolved = {}
    /\ cdl = <<>>
    /\ tokens = <<>>
    /\ langs = {}
    /\ corpus = <<>>
    /\ texts = <<>>
    /\ failed = <<>>
    /\ osl = <<>>
    /\ morpheme_to_glyph_names = << >>
    /\ glyph_name_to_glyphs = << >>
    /\ outfiles = <<>>

SpecPipeline == InitPipeline /\ [][NextClean \/ NextGlyphs]_vars

----------------------------------------------------------------------------
(* The glyphs the Glyph Resolver emits                                     *)

\* the values of the sign-name table
GlyphValues == {GLYPH_NAME_TO_UNICODE[k][2] : k \in 1..Len(GLYPH_NAME_TO_UNICODE)}

WellFormedGlyph(glyph) ==
    glyph # <<>> /\ glyph \in GlyphValues /\ "X" \notin Range(glyph)

\* the glyphs of the triples resolved so far
EmittedGlyphs == UNION {{r[2][k][3] : k \in 1..Len(r[2])} : r \in resolved}

\* C4: every glyph the Glyph Resolver emits that is neither a marker token
\* nor the unknown token is a non-empty value of the sign-name table and
\* holds no placeholder character X; so is every glyph that the observed
\* readings are counted under.
C4_GlyphWellFormed ==
    /\ \A glyph \in EmittedGlyphs \ SPECIAL_TOKENS : WellFormedGlyph(glyph)
    /\ \A glyph \in DOMAIN glyph_to_observed_readings : WellFormedGlyph(glyph)

\* C4 witness: a reading whose sign has an empty glyph or a placeholder
\* glyph was resolved to the unknown triple, and a reading whose sign has a
\* glyph was resolved to it
C4_GlyphsEmitted ==
    /\ \E m \in {Chars("ba"), Chars("bad")} :
           << m, << << UNK, UNK, UNK >> >> >> \in resolved
    /\ \E r \in resolved : r[2] # <<>> /\ r[2][1][3] \notin SPECIAL_TOKENS
    /\ \E glyph \in EmittedGlyphs : glyph \in DOMAIN glyph_to_observed_readings

----------------------------------------------------------------------------
(* Resolving a morpheme again                                              *)

----------------------------------------------------------------------------
(* The records that leave the pipeline                                     *)

IdsOf(d) == {d[i].id : i \in 1..Len(d)}

\* the loop of the normalizer is over and the records without text are
\* about to be removed
AtRemoveTablets == script = "clean" /\ pc = Len(fns) + 1

\* an earlier record of the frame has the same value in the column
EarlierSame(i, column) == \E j \in 1..(i - 1) : df[j][column] = df[i][column]

----------------------------------------------------------------------------
(* The outputs of a record of one wordform                                 *)

\* the text of the record of df[i] as the normalizer wrote it, and as main
\* hands it to _add_glyphs_to_row
Cleaned(i) == infile[CHOOSE j \in 1..Len(infile) : infile[j].id = df[i].id][KEY]
Handed(i) == ReplacePairs(Cleaned(i), ALL_REPLACEMENTS)

\* the triples of the morphemes of a text that is one wordform
TriplesOf(t) == get_wordform_glyph_data(t).data

\* a wordform of two morphemes, the first resolved to the unknown triple and
\* the second, which is not a determinative, to its own triple
UnknownThenKnown(t) ==
    /\ Wordforms(t) = << t >>
    /\ t \notin SPECIAL_TOKENS
    /\ LET ms == split_wordform_into_morphemes(t)
       IN  /\ Len(ms) = 2
           /\ t = ms[1] \o << HY >> \o ms[2]
           /\ ms[2][1] # "{"
           /\ morpheme_glyph_data(ms[1]).data = << << UNK, UNK, UNK >> >>
           /\ Len(morpheme_glyph_data(ms[2]).data) = 1
           /\ morpheme_glyph_data(ms[2]).data[1][1] = ms[2]

\* C9: a record of one wordform whose first morpheme is unresolvable and whose
\* second is resolvable (zzz-ta) has the sign names "<unk> NAME" (<unk> TA)
\* and the transliteration "<unk>-morpheme" (<unk>-ta): the unknown token
\* stays hyphen-joined to its neighbour.
C9_UnknownStaysHyphenJoined ==
    GlyphsDone =>
        \A i \in 1..Len(df) :
            UnknownThenKnown(Handed(i)) =>
                /\ df[i].glyph_names = UNK \o << SP >> \o TriplesOf(Handed(i))[2][2]
                /\ df[i].transliteration = UNK \o << HY >> \o TriplesOf(Handed(i))[2][1]

\* C9 as amended: the sign names are "<unk> NAME" and the transliteration is
\* "<unk> morpheme": the postprocessing of main puts a space for the hyphen
\* between the unknown token and its neighbour
C9_UnknownSpaceJoined ==
    GlyphsDone =>
        \A i \in 1..Len(df) :
            UnknownThenKnown(Handed(i)) =>
                /\ df[i].glyph_names = UNK \o << SP >> \o TriplesOf(Handed(i))[2][2]
                /\ df[i].transliteration = UNK \o << SP >> \o TriplesOf(Handed(i))[2][1]

\* C9 witness: the record zzz-ta was written with <unk> TA and <unk> ta
C9_UnknownWritten ==
    /\ GlyphsDone
    /\ \E i \in 1..Len(df) :
          /\ Cleaned(i) = Chars("zzz-ta")
          /\ UnknownThenKnown(Handed(i))
          /\ df[i].glyph_names = Chars("<unk> TA")
          /\ df[i].transliteration = Chars("<unk> ta")

\* the candidate sign names of a morpheme, and the glyph of a sign name
Candidates(m) == get_morpheme_glyph_names(m).names

Usable(glyph_name) ==
    /\ glyph_name \in GLYPH_NAMES
    /\ Get(GLYPH_NAME_TO_UNICODE, glyph_name) # <<>>
    /\ "X" \notin Range(Get(GLYPH_NAME_TO_UNICODE, glyph_name))

\* one wordform, all of whose morphemes have exactly one candidate sign
\* name, with a usable glyph
AllOneCandidate(t) ==
    /\ Wordforms(t) = << t >>
    /\ t \notin SPECIAL_TOKENS
    /\ \A m \in Range(split_wordform_into_morphemes(t)) :
          Len(Candidates(m)) = 1 /\ Usable(Candidates(m)[1])

\* the candidate sign names of the morphemes of t, and their glyphs
NamesOf(t) ==
    LET ms == split_wordform_into_morphemes(t)
    IN  [k \in 1..Len(ms) |-> Candidates(ms[k])[1]]

GlyphsOf(names) ==
    Flatten([k \in 1..Len(names) |-> Get(GLYPH_NAME_TO_UNICODE, names[k])])

ShownAsWritten(m) ==
    /\ get_morpheme_glyph_names(m).morpheme = m
    /\ Candidates(m)[1] \notin Keys(SWAP_GLYPH_NAMES) \cup {<<"N">>}

\* the wordform has no empty segment: it is its morphemes joined by hyphens,
\* the determinatives without one
NoEmptySegment(t) ==
    /\ split_wordform_into_morphemes(t) # <<>>
    /\ t = ReplacePairs(Join(split_wordform_into_morphemes(t), << HY >>),
                        << << Chars("-{"), Chars("{") >>,
                           << Chars("}-"), Chars("}") >> >>)

None == << "None" >>

DiscontinuityType ==
    { "cell-start", "cell-end", "column", "field-start", "field-end",
      "line-start", "nonw", "nonx", "object", "surface" }

\* The node classes, with the fields the walker reads.
Discontinuity(type_, state, scope) ==
    [node |-> "d", type_ |-> type_, state |-> state, scope |-> scope]

Lemma(frag, f) == [node |-> "l", frag |-> frag, f |-> f]

LLNode == [node |-> "ll"]

LinkbaseNode == [node |-> "linkbase"]

Chunk(nodes) == [node |-> "c", cdl |-> nodes]

\* Discontinuity.to_text of cdl.py; falling off the end returns None.
to_text(self) ==
    IF self.type_ = "object" THEN None
    ELSE IF self.type_ = "line-start" THEN NEWLINE
    ELSE IF self.type_ = "column" THEN NEWLINE \o COLUMN \o NEWLINE
    ELSE IF self.type_ = "surface" THEN SURFACE
    ELSE IF self.state = Chars("missing") THEN NEWLINE \o MISSING \o NEWLINE
    ELSE IF self.state = Chars("blank")
         THEN IF self.scope = Chars("line") THEN NEWLINE \o MISSING \o NEWLINE
              ELSE IF self.scope = Chars("space")
                   THEN NEWLINE \o BLANK_SPACE \o NEWLINE
                   ELSE None
    ELSE IF self.state = Chars("ruling") THEN NEWLINE \o RULING \o NEWLINE
    ELSE None

\* _discontinuity_to_text of text.py, with the type tested after the state.
discontinuity_to_text_state_first(node) ==
    IF node.state = Chars("missing") THEN NEWLINE \o MISSING \o NEWLINE
    ELSE IF node.state = Chars("blank")
         THEN IF node.scope = Chars("line") THEN NEWLINE \o MISSING \o NEWLINE
              ELSE IF node.scope = Chars("space")
                   THEN NEWLINE \o BLANK_SPACE \o NEWLINE
                   ELSE None
    ELSE IF node.state = Chars("ruling") THEN NEWLINE \o RULING \o NEWLINE
    ELSE IF node.type_ = "object" THEN None
    ELSE IF node.type_ = "line-start" THEN NEWLINE
    ELSE IF node.type_ = "column" THEN NEWLINE \o COLUMN \o NEWLINE
    ELSE IF node.type_ = "surface" THEN SURFACE
    ELSE None

discontinuity_to_text(node) ==
    IF node.type_ = "object" THEN None
    ELSE IF node.type_ = "line-start" THEN NEWLINE
    ELSE IF node.type_ = "column" THEN NEWLINE \o COLUMN \o NEWLINE
    ELSE IF node.type_ = "surface" THEN SURFACE
    ELSE IF node.state = Chars("missing") THEN NEWLINE \o MISSING \o NEWLINE
    ELSE IF node.state = Chars("blank")
         THEN IF node.scope = Chars("line") THEN NEWLINE \o MISSING \o NEWLINE
              ELSE IF node.scope = Chars("space")
                   THEN NEWLINE \o BLANK_SPACE \o NEWLINE
                   ELSE None
    ELSE IF node.state = Chars("ruling") THEN NEWLINE \o RULING \o NEWLINE
    ELSE None

\* One gdl entry contributes "[" for breakStart and "]" for breakEnd.
Breaks(item) ==
    (IF item.breakStart THEN << "[" >> ELSE <<>>)
        \o (IF item.breakEnd THEN << "]" >> ELSE <<>>)

\* The loop over node.f["gdl"]: each item's seq and group entries, then the
\* item itself.
RECURSIVE ideal_bracket_seq(_)
ideal_bracket_seq(gdl) ==
    IF gdl = <<>> THEN <<>>
    ELSE LET item == Head(gdl)
             subitems == item.seq \o item.group
         IN  Flatten([k \in 1..Len(subitems) |-> Breaks(subitems[k])])
                 \o Breaks(item) \o ideal_bracket_seq(Tail(gdl))

actual_bracket_seq(text) == Filter(text, {"[", "]"})

WithoutBrackets(text) == Replace(Replace(text, << "[" >>, <<>>), << "]" >>, <<>>)

\* text[:idx - 1] + ch + text[idx:]: the character before the place is lost
InsertBeforeFirstOverwriting(text, at, ch, fallback) ==
    LET idx == Find(text, << at >>, 1)
    IN  IF idx = 0 THEN fallback
        ELSE Upto(text, idx - 2) \o << ch >> \o From(text, idx)

\* text[:idx] + ch + text[idx:] at the first occurrence of `at`, or the
\* fallback when text.find(at) is -1.
InsertBeforeFirst(text, at, ch, fallback) ==
    LET idx == Find(text, << at >>, 1)
    IN  IF idx = 0 THEN fallback
        ELSE Upto(text, idx - 1) \o << ch >> \o From(text, idx)

\* Case 1 without its second step: the text with the two brackets added.
open_and_shut_no_wrap(text, ideal) ==
    LET actual == actual_bracket_seq(text)
        t1 == IF ~StartsWith(actual, << "[" >>) THEN << "[" >> \o text ELSE text
    IN  IF ~EndsWith(actual, << "]" >>) THEN t1 \o << "]" >> ELSE t1

\* Case 1 of the bracket repair: the ideal sequence opens and shuts.
open_and_shut(text, ideal) ==
    LET actual == actual_bracket_seq(text)
        t1 == IF ~StartsWith(actual, << "[" >>) THEN << "[" >> \o text ELSE text
        t2 == IF ~EndsWith(actual, << "]" >>) THEN t1 \o << "]" >> ELSE t1
    IN  IF ideal = actual_bracket_seq(t2) THEN t2
        ELSE << "[" >> \o WithoutBrackets(t2) \o << "]" >>

\* Cases 2 and 3 and the final fallback.
closing_and_opening(text, ideal) ==
    LET actual == actual_bracket_seq(text)
        t2 == IF StartsWith(ideal, << "]" >>) /\ ~StartsWith(actual, << "]" >>)
              THEN InsertBeforeFirst(text, "[", "]", text \o << "]" >>)
              ELSE text
        t3 == IF EndsWith(ideal, << "[" >>) /\ ~EndsWith(actual, << "[" >>)
              THEN InsertBeforeFirst(t2, "]", "[", << "[" >> \o t2)
              ELSE t2
        s0 == WithoutBrackets(t3)
        s1 == IF Contains(ideal, << "[", "]" >>) THEN << "[" >> \o s0 \o << "]" >>
              ELSE s0
        s2 == IF StartsWith(ideal, << "[" >>) THEN << "[" >> \o s1 ELSE s1
        s3 == IF EndsWith(ideal, << "]" >>) THEN s2 \o << "]" >> ELSE s2
    IN  IF ideal = actual_bracket_seq(t3) THEN t3 ELSE s3

\* The Lemma branch shared by both extract functions.
lemma_text(node) ==
    LET text == IF node.frag # <<>> THEN node.frag ELSE node.f.form
        ideal == ideal_bracket_seq(node.f.gdl)
    IN  IF ideal = <<>> THEN text
        ELSE IF ideal = actual_bracket_seq(text) THEN text
        ELSE IF StartsWith(ideal, << "[" >>) /\ EndsWith(ideal, << "]" >>)
             THEN open_and_shut(text, ideal)
        ELSE closing_and_opening(text, ideal)

\* _extract_text_from_node of text.py
_extract_text_from_node(node) ==
    IF node.node = "d" THEN discontinuity_to_text(node)
    ELSE IF node.node = "l" THEN lemma_text(node)
    ELSE None

\* extract_text_from_node of cdl.py
extract_text_from_node(node) ==
    IF node.node = "d" THEN to_text(node)
    ELSE IF node.node = "l" THEN lemma_text(node)
    ELSE None

_extract_lang_from_node(node) ==
    IF node.node = "l" THEN node.f.lang ELSE <<>>

\* `if text:` is false for None and for the empty string.
Truthy(text) == text # None /\ text # <<>>

\* _crawl_cdl_for_text of text.py: the loop over cdl, one node per step.
RECURSIVE _crawl_cdl_for_text(_)
_crawl_cdl_for_text(nodes) ==
    IF nodes = <<>> THEN [tokens |-> <<>>, langs |-> {}]
    ELSE LET node == Head(nodes)
             here ==
                 IF node.node = "c" THEN _crawl_cdl_for_text(node.cdl)
                 ELSE LET text == _extract_text_from_node(node)
                          lang == _extract_lang_from_node(node)
                      IN  [tokens |-> IF Truthy(text) THEN << text >> ELSE <<>>,
                           langs |-> IF lang # <<>> THEN {lang} ELSE {}]
             rest == _crawl_cdl_for_text(Tail(nodes))
         IN  [tokens |-> here.tokens \o rest.tokens,
              langs |-> here.langs \cup rest.langs]

\* crawl_cdl_for_text with the Lemma's text extracted and appended as well
RECURSIVE crawl_cdl_for_text_with_lemma_texts(_)
crawl_cdl_for_text_with_lemma_texts(nodes) ==
    IF nodes = <<>> THEN [tokens |-> <<>>, langs |-> {}]
    ELSE LET node == Head(nodes)
             chunk == IF node.node = "c"
                      THEN crawl_cdl_for_text_with_lemma_texts(node.cdl)
                      ELSE [tokens |-> <<>>, langs |-> {}]
             text == extract_text_from_node(node)
             here == [tokens |-> IF Truthy(text) THEN << text >> ELSE <<>>,
                      langs |-> IF node.node = "l" /\ node.f.lang # <<>>
                                THEN {node.f.lang} ELSE {}]
             rest == crawl_cdl_for_text_with_lemma_texts(Tail(nodes))
         IN  [tokens |-> chunk.tokens \o here.tokens \o rest.tokens,
              langs |-> chunk.langs \cup here.langs \cup rest.langs]

\* crawl_cdl_for_text of cdl.py: the Chunk test is a separate `if`, and the
\* `else` of the Lemma test is the only place a text is appended.
RECURSIVE crawl_cdl_for_text(_)
crawl_cdl_for_text(nodes) ==
    IF nodes = <<>> THEN [tokens |-> <<>>, langs |-> {}]
    ELSE LET node == Head(nodes)
             chunk == IF node.node = "c" THEN crawl_cdl_for_text(node.cdl)
                      ELSE [tokens |-> <<>>, langs |-> {}]
             here ==
                 IF node.node = "l"
                 THEN [tokens |-> <<>>,
                       langs |-> IF node.f.lang # <<>> THEN {node.f.lang} ELSE {}]
                 ELSE LET text == extract_text_from_node(node)
                      IN  [tokens |-> IF Truthy(text) THEN << text >> ELSE <<>>,
                           langs |-> {}]
             rest == crawl_cdl_for_text(Tail(nodes))
         IN  [tokens |-> chunk.tokens \o here.tokens \o rest.tokens,
              langs |-> chunk.langs \cup here.langs \cup rest.langs]

\* TextBase.transliteration calls the walker of text.py on the record's tree.
CrawlText ==
    /\ script = "cdl"
    /\ script' = "_crawl_cdl_for_text"
    /\ tokens' = _crawl_cdl_for_text(cdl).tokens
    /\ langs' = _crawl_cdl_for_text(cdl).langs
    /\ UNCHANGED << cdl, df, pc, log, run, infile, glyph_vars, load_vars, lookup_vars >>

\* The walker exported by cdl.py, on the same tree.
CrawlCdl ==
    /\ script = "cdl"
    /\ script' = "crawl_cdl_for_text"
    /\ tokens' = crawl_cdl_for_text(cdl).tokens
    /\ langs' = crawl_cdl_for_text(cdl).langs
    /\ UNCHANGED << cdl, df, pc, log, run, infile, glyph_vars, load_vars, lookup_vars >>

NextWalk == CrawlText \/ CrawlCdl

\* ---- input trees ----

MaxNodes == 3

NoBreak == [breakStart |-> FALSE, breakEnd |-> FALSE, seq |-> <<>>, group |-> <<>>]

BreakStart == [NoBreak EXCEPT !.breakStart = TRUE]

BreakEnd == [NoBreak EXCEPT !.breakEnd = TRUE]

InputStates == { <<>>, Chars("missing"), Chars("blank"), Chars("ruling"), Chars("other") }

InputScopes == { <<>>, Chars("line"), Chars("space") }

InputDiscontinuities ==
    { Discontinuity(t, st, sc) :
        t \in DiscontinuityType, st \in InputStates, sc \in InputScopes }

InputLemmas ==
    { Lemma(Chars("a"), [form |-> <<>>, lang |-> Chars("sux"), gdl |-> << NoBreak >>]),
      Lemma(<<>>, [form |-> Chars("b"), lang |-> Chars("akk"), gdl |-> <<>>]),
      Lemma(<<>>, [form |-> <<>>, lang |-> Chars("sux"), gdl |-> <<>>]),
      Lemma(Chars("c]"), [form |-> Chars("c"), lang |-> <<>>,
                          gdl |-> << [NoBreak EXCEPT !.seq = << BreakStart >>],
                                     [NoBreak EXCEPT !.group = << BreakEnd >>] >>]) }

\* Lemmas whose ideal bracket sequence is `[]`, built in the three ways the
\* loop over gdl can build it, with every literal text of up to
\* MaxBracketText characters over a sign and the two square brackets, held
\* in `frag` or in the form.
MaxBracketText == 3

RECURSIVE BracketTexts(_)
BracketTexts(n) ==
    IF n = 0 THEN { <<>> }
    ELSE BracketTexts(n - 1)
             \cup { t \o << c >> : t \in { u \in BracketTexts(n - 1) : Len(u) = n - 1 },
                                   c \in { "a", "[", "]" } }

OpenShutGdls ==
    { << [NoBreak EXCEPT !.breakStart = TRUE, !.breakEnd = TRUE] >>,
      << BreakStart, BreakEnd >>,
      << [NoBreak EXCEPT !.seq = << BreakStart >>, !.group = << BreakEnd >>] >> }

BracketLemmas ==
    { Lemma(t, [form |-> <<>>, lang |-> Chars("sux"), gdl |-> g]) :
        t \in BracketTexts(MaxBracketText), g \in OpenShutGdls }
      \cup { Lemma(<<>>, [form |-> t, lang |-> Chars("sux"), gdl |-> g]) :
                t \in BracketTexts(MaxBracketText), g \in OpenShutGdls }

\* Lemmas with the other ideal bracket sequences: every list of one to three
\* breaks, and an item whose inner entry shuts before the item opens
RECURSIVE BreakLists(_)
BreakLists(n) ==
    IF n = 0 THEN { <<>> }
    ELSE BreakLists(n - 1)
             \cup { g \o << b >> : g \in { h \in BreakLists(n - 1) : Len(h) = n - 1 },
                                   b \in { BreakStart, BreakEnd } }

RepairGdls ==
    (BreakLists(MaxBracketText) \ { <<>> })
        \cup { << [NoBreak EXCEPT !.seq = << BreakEnd >>, !.breakStart = TRUE] >> }

RepairLemmas ==
    { Lemma(t, [form |-> <<>>, lang |-> Chars("sux"), gdl |-> g]) :
        t \in BracketTexts(MaxBracketText), g \in RepairGdls }
      \cup { Lemma(<<>>, [form |-> t, lang |-> Chars("sux"), gdl |-> g]) :
                t \in BracketTexts(MaxBracketText), g \in RepairGdls }

InputLeaves ==
    InputLemmas
        \cup { Discontinuity("line-start", <<>>, <<>>),
               Discontinuity("nonx", Chars("missing"), <<>>),
               Discontinuity("object", Chars("ruling"), <<>>),
               LLNode, LinkbaseNode }

\* The trees with exactly n nodes, and the lists of trees with n nodes in all.
RECURSIVE TreesOfSize(_), Forests(_)
TreesOfSize(n) ==
    (IF n = 1 THEN InputLeaves ELSE {}) \cup { Chunk(f) : f \in Forests(n - 1) }

Forests(n) ==
    IF n = 0 THEN { <<>> }
    ELSE UNION { { << t >> \o f : t \in TreesOfSize(k), f \in Forests(n - k) } :
                 k \in 1..n }

InitWalk ==
    /\ script = "cdl"
    /\ cdl \in { << d >> : d \in InputDiscontinuities }
                 \cup { << l >> : l \in BracketLemmas }
                 \cup { << l >> : l \in RepairLemmas }
                 \cup UNION { Forests(n) : n \in 0..MaxNodes }
    /\ tokens = <<>>
    /\ langs = {}
    /\ corpus = <<>>
    /\ texts = <<>>
    /\ failed = <<>>
    /\ osl = <<>>
    /\ morpheme_to_glyph_names = << >>
    /\ glyph_name_to_glyphs = << >>
    /\ outfiles = <<>>
    /\ df = <<>>
    /\ pc = 0
    /\ log = {}
    /\ run = 1
    /\ infile = <<>>
    /\ lists = NoLists
    /\ glyph_to_observed_readings = << >>
    /\ resolved = {}

SpecWalk == InitWalk /\ [][NextWalk]_vars

\* ---- C6 ----

Crawled == script \in { "_crawl_cdl_for_text", "crawl_cdl_for_text" }

TypeOnly(d) == d.type_ \in { "object", "line-start", "column", "surface" }

\* What the stated precedence gives for a Discontinuity, as a list of tokens.
Rendering(d) ==
    CASE d.type_ = "object" -> <<>>
      [] d.type_ = "line-start" -> << << NL >> >>
      [] d.type_ = "column" -> << << NL >> \o COLUMN \o << NL >> >>
      [] d.type_ = "surface" -> << SURFACE >>
      [] ~TypeOnly(d) /\ d.state = Chars("missing") ->
             << << NL >> \o MISSING \o << NL >> >>
      [] ~TypeOnly(d) /\ d.state = Chars("blank") /\ d.scope = Chars("line") ->
             << << NL >> \o MISSING \o << NL >> >>
      [] ~TypeOnly(d) /\ d.state = Chars("blank") /\ d.scope = Chars("space") ->
             << << NL >> \o BLANK_SPACE \o << NL >> >>
      [] ~TypeOnly(d) /\ d.state = Chars("ruling") ->
             << << NL >> \o RULING \o << NL >> >>
      [] OTHER -> <<>>

\* C6: a tree that is one Discontinuity is walked, by either walker, to the
\* token its (type, state, scope) gives under the fixed precedence: object
\* nothing, line-start a newline, column the column marker between newlines,
\* surface the bare surface marker; otherwise state missing the missing
\* marker, state blank the missing marker for scope line, the blank-space
\* marker for scope space and nothing for another scope, state ruling the
\* ruling marker (each between newlines), and anything else nothing.  The
\* type is looked at before the state.
C6_DiscontinuityPrecedence ==
    (Crawled /\ Len(cdl) = 1 /\ cdl[1].node = "d") => tokens = Rendering(cdl[1])

\* A surface with state missing has been walked: the type won.
C6_TypeBeforeState ==
    /\ Crawled
    /\ cdl = << Discontinuity("surface", Chars("missing"), Chars("line")) >>
    /\ tokens = << SURFACE >>

\* ---- C7 ----

\* The nodes of a tree list that are not Chunks, depth first, left to right.
RECURSIVE DepthFirst(_)
DepthFirst(nodes) ==
    IF nodes = <<>> THEN <<>>
    ELSE (IF Head(nodes).node = "c" THEN DepthFirst(Head(nodes).cdl)
          ELSE << Head(nodes) >>) \o DepthFirst(Tail(nodes))

NodeText(n) ==
    IF n.node = "d" THEN Rendering(n)
    ELSE IF n.node = "l" /\ lemma_text(n) # <<>> THEN << lemma_text(n) >>
    ELSE <<>>

ReadingOrder(nodes) ==
    LET ns == DepthFirst(nodes) IN Flatten([k \in 1..Len(ns) |-> NodeText(ns[k])])

LanguageTags(nodes) ==
    LET ns == DepthFirst(nodes)
    IN  { ns[k].f.lang : k \in { j \in 1..Len(ns) : ns[j].node = "l" } } \ { <<>> }

\* C7: after a walk, by either walker, the token list is the non-empty texts
\* of the Lemma and Discontinuity nodes in depth-first, left-to-right order,
\* and the language set is the set of non-empty language tags of the Lemmas;
\* LinkGroup and linkbase nodes add nothing.
C7_TokensInReadingOrder ==
    Crawled => (tokens = ReadingOrder(cdl) /\ langs = LanguageTags(cdl))

\* The same statement for the walker of text.py alone, which is the one
\* TextBase.transliteration calls.
C7_TextWalkerInReadingOrder ==
    script = "_crawl_cdl_for_text"
        => (tokens = ReadingOrder(cdl) /\ langs = LanguageTags(cdl))

\* The walker of text.py has walked a Chunk holding a Lemma, followed by a
\* Discontinuity and a link node.
C7_ChunkSpliced ==
    /\ script = "_crawl_cdl_for_text"
    /\ Len(cdl) = 2
    /\ cdl[1].node = "c" /\ Len(cdl[1].cdl) = 1 /\ cdl[1].cdl[1].node = "l"
    /\ cdl[2].node = "d"
    /\ Len(tokens) = 2

----------------------------------------------------------------------------
(* The three output strings of a record, read as marker sequences          *)

\* the marker tokens of a string from index i on, left to right; no marker
\* token is a prefix of another
RECURSIVE MarkersFrom(_, _)
MarkersFrom(text, i) ==
    IF i > Len(text) THEN <<>>
    ELSE LET here == {m \in SPECIAL_TOKENS : At(text, i, m)}
         IN  IF here = {} THEN MarkersFrom(text, i + 1)
             ELSE << The(here) >> \o MarkersFrom(text, i + Len(The(here)))

Markers(text) == MarkersFrom(text, 1)

\* the marker tokens other than the missing marker
StructuralMarkers(text) ==
    SelectSeq(Markers(text), LAMBDA m : m # Chars("..."))

\* C11: in every written record the sequence of marker tokens (missing,
\* surface, column, blank space, ruling, unknown, newline) read left to
\* right is the same in the transliteration, the sign names and the glyphs.
C11_MarkersAligned ==
    GlyphsDone =>
        \A i \in 1..Len(df) :
            /\ Markers(df[i].transliteration) = Markers(df[i].glyph_names)
            /\ Markers(df[i].glyph_names) = Markers(df[i].glyphs)

\* C11, the part that holds: the sign names and the glyphs of a written record
\* have the same marker sequence, and the transliteration has the same
\* sequence of markers other than the missing marker
C11_MarkersAlignedButMissing ==
    GlyphsDone =>
        \A i \in 1..Len(df) :
            /\ Markers(df[i].glyph_names) = Markers(df[i].glyphs)
            /\ StructuralMarkers(df[i].transliteration)
                   = StructuralMarkers(df[i].glyph_names)

\* C11 witness: the record x-x{ki} was written; its transliteration has the
\* missing marker twice, its sign names and glyphs have it once
C11_MissingTwiceAndOnce ==
    /\ GlyphsDone
    /\ \E i \in 1..Len(df) :
          /\ Cleaned(i) = Chars("x-x{ki}")
          /\ df[i].transliteration = Chars("...-...{ki}")
          /\ df[i].glyph_names = Chars("...KI")
          /\ Markers(df[i].transliteration) = << Chars("..."), Chars("...") >>
          /\ Markers(df[i].glyphs) = << Chars("...") >>

\* ===================================================================
\* Parsing the node tree and the record loop (src/models/cdl.py,
\* src/models/text.py, 1_download_corpora.py)
\* ===================================================================

\* A JSON object is a function from its keys; dict.get(key, default).
GetOr(d, key, default) == IF key \in DOMAIN d THEN d[key] ELSE default

\* An exception that left a call, as the value the call gives in its place.
Raise(type, args) == [raise |-> type, args |-> args]

Raised(r) == "raise" \in DOMAIN r

ChunkType == { "discourse", "phrase", "sentence", "text" }

\* The fields of the node classes: the required ones, the optional ones, and
\* whether a field outside them is refused (extra=Extra.forbid).
ModelFields ==
    [c |-> [required |-> {"node", "type", "id"},
            optional |-> {"cdl", "implicit", "label", "ref", "subtype", "tag"},
            forbid |-> TRUE],
     d |-> [required |-> {"node", "type"},
            optional |-> {"ref", "label", "n", "subtype", "strict", "state",
                          "extent", "scope", "frag", "lang", "delim",
                          "queried", "flags", "o"},
            forbid |-> TRUE],
     l |-> [required |-> {"node", "id", "ref", "inst", "f", "props"},
            optional |-> {"frag", "sig", "exoprj", "exolng", "exosig", "ftype",
                          "cof-tails", "cof-head", "tail-sig", "para", "bad"},
            forbid |-> TRUE],
     ll |-> [required |-> {"node", "id", "choices"},
             optional |-> {},
             forbid |-> TRUE],
     linkbase |-> [required |-> {"linkbase"},
                   optional |-> {},
                   forbid |-> FALSE]]

\* Chunk(**node), Discontinuity(**node), Lemma(**node), LLNode(**node) and
\* LinkbaseNode(**node): the object with the fields the walker reads, or the
\* validation error of the class when a required field is not given, a field
\* is not one of the class, or the type is not a member of the enumeration.
Construct(kind, node) ==
    LET fields == ModelFields[kind]
        given  == DOMAIN node
        valid  ==
            /\ fields.required \subseteq given
            /\ fields.forbid => given \subseteq fields.required \cup fields.optional
            /\ kind = "c" => node.type \in ChunkType
            /\ kind = "d" => node.type \in DiscontinuityType
    IN  IF ~valid THEN Raise("ValidationError", kind)
        ELSE IF kind = "c" THEN Chunk(GetOr(node, "cdl", <<>>))
        ELSE IF kind = "d"
             THEN Discontinuity(node.type, GetOr(node, "state", <<>>),
                                GetOr(node, "scope", <<>>))
        ELSE IF kind = "l" THEN Lemma(GetOr(node, "frag", <<>>), node.f)
        ELSE IF kind = "ll" THEN LLNode
        ELSE LinkbaseNode

\* [f(n) for n in nodes] where f may raise: the index of the first result
\* that is an exception, 0 when no call raised.
FirstRaised(results) ==
    LET raised == {k \in 1..Len(results) : Raised(results[k])}
    IN  IF raised = {} THEN 0 ELSE CHOOSE k \in raised : \A j \in raised : k <= j

RECURSIVE parse_cdl_node(_)

\* parse_cdl_node with a last case that takes a node of any other kind as a
\* linkbase node
parse_cdl_node_any_kind(node) ==
    The({ LET node_type == GetOr(node, "node", "")
              node_     == IF "cdl" \in DOMAIN node
                           THEN [node EXCEPT !["cdl"] = children]
                           ELSE node
          IN  IF FirstRaised(children) # 0 THEN children[FirstRaised(children)]
              ELSE IF node_type \in {"c", "d", "l", "ll"}
                   THEN Construct(node_type, node_)
              ELSE LinkbaseNode :
          children \in { IF "cdl" \in DOMAIN node
                          THEN [k \in 1..Len(node.cdl) |-> parse_cdl_node(node.cdl[k])]
                          ELSE <<>> } })

\* parse_cdl_node: the children under "cdl" are parsed first and put in
\* their place, then the node is built by the class of its kind.
parse_cdl_node(node) ==
    The({ LET node_type == GetOr(node, "node", "")
              node_     == IF "cdl" \in DOMAIN node
                           THEN [node EXCEPT !["cdl"] = children]
                           ELSE node
          IN  IF FirstRaised(children) # 0 THEN children[FirstRaised(children)]
              ELSE IF node_type \in {"c", "d", "l", "ll"}
                   THEN Construct(node_type, node_)
              ELSE IF "linkbase" \in DOMAIN node THEN Construct("linkbase", node_)
              ELSE Raise("ValueError", << "Unknown node type: ", node_type >>) :
          children \in { IF "cdl" \in DOMAIN node
                          THEN [k \in 1..Len(node.cdl) |-> parse_cdl_node(node.cdl[k])]
                          ELSE <<>> } })

\* open(text_path) when there is no file of that name
NoFile == [errno |-> "ENOENT"]

\* TextBase.load_contents: the file of the text is opened and read, and the
\* nodes under its "cdl" key are parsed; the parsed list, or the exception.
load_contents(self) ==
    IF self.file_id = "" THEN Raise("ValueError", << "no file id: " >>)
    ELSE IF self.file = NoFile THEN Raise("FileNotFoundError", self.file_id)
    ELSE IF "cdl" \notin DOMAIN self.file THEN Raise("KeyError", "cdl")
    ELSE The({ IF FirstRaised(parsed) # 0 THEN parsed[FirstRaised(parsed)]
               ELSE [cdl |-> parsed] :
               parsed \in { [k \in 1..Len(self.file.cdl) |->
                               parse_cdl_node(self.file.cdl[k])] } })

\* Python's order of two strings of lower-case letters
RECURSIVE Before(_, _)
Before(a, b) ==
    IF a = <<>> THEN TRUE
    ELSE IF b = <<>> THEN FALSE
    ELSE IF a[1] = b[1] THEN Before(Tail(a), Tail(b))
    ELSE (CHOOSE k \in 1..Len(LOWER) : LOWER[k] = a[1])
             < (CHOOSE k \in 1..Len(LOWER) : LOWER[k] = b[1])

\* sorted(list(S))
RECURSIVE Sorted(_)
Sorted(S) ==
    IF S = {} THEN <<>>
    ELSE The({ << first >> \o Sorted(S \ {first}) :
               first \in { CHOOSE x \in S : \A y \in S : Before(x, y) } })

\* _without_special_tokens of TextBase.transliteration
text_without_special_tokens(text) ==
    LET special_token_format == Cat(<< Lit(<<"#">>), Lazy(NotCls(White)), Lit(<<"#">>) >>)
    IN  The({ Replace(text2, << SP >>, <<>>) :
              text2 \in { Replace(text1, << NL >>, <<>>) :
                          text1 \in { Sub(special_token_format, <<>>, text, 0, 0) } } })

\* transliteration with every surface kept, whether it has text or not
transliteration_all_surfaces(walked) ==
    LET newline == Cat(<< Star(Lit(<< SP >>)), Lit(<< NL >>), Star(Lit(<< SP >>)) >>)
    IN  The({ [langs |-> Join(Sorted(walked.langs), Chars(", ")),
               text |-> Strip(text4)] :
              text4 \in { Sub(Plus(Lit(<< SP >>)), << SP >>, text3, 0, 0) :
              text3 \in { Sub(Plus(Lit(<< NL >>)), << NL >>, text2, 0, 0) :
              text2 \in { Sub(newline, << NL >>, text1, 0, 0) :
              text1 \in { SURFACE \o << NL >>
                              \o Join(stripped, << NL >> \o SURFACE \o << NL >>) :
              stripped \in { [k \in 1..Len(surfaces) |-> Strip(surfaces[k])] :
              surfaces \in { Split(text, SURFACE) :
              text \in { Join(walked.tokens, << SP >>) } } } } } } } })

\* TextBase.transliteration after the walk: the tokens joined by spaces are
\* cut at the surface markers, the surfaces with text besides special tokens
\* are kept, each under a surface marker, and the white space is collapsed
transliteration(walked) ==
    LET newline == Cat(<< Star(Lit(<< SP >>)), Lit(<< NL >>), Star(Lit(<< SP >>)) >>)
    IN  The({ [langs |-> Join(Sorted(walked.langs), Chars(", ")),
               text |-> Strip(text4)] :
              text4 \in { Sub(Plus(Lit(<< SP >>)), << SP >>, text3, 0, 0) :
              text3 \in { Sub(Plus(Lit(<< NL >>)), << NL >>, text2, 0, 0) :
              text2 \in { Sub(newline, << NL >>, text1, 0, 0) :
              text1 \in { IF kept = <<>> THEN <<>>
                          ELSE SURFACE \o << NL >>
                                   \o Join(kept, << NL >> \o SURFACE \o << NL >>) :
              kept \in { SelectSeq(stripped,
                                   LAMBDA s : text_without_special_tokens(s) # <<>>) :
              stripped \in { [k \in 1..Len(surfaces) |-> Strip(surfaces[k])] :
              surfaces \in { Split(text, SURFACE) :
              text \in { Join(walked.tokens, << SP >>) } } } } } } } } })

\* The loop body without the try: an exception of load_contents leaves the
\* function
LoadContentsUncaught ==
    /\ script = "load_contents"
    /\ pc \in 1..Len(corpus)
    /\ \E r \in { load_contents(corpus[pc]) } :
          IF Raised(r)
          THEN /\ script' = "raised"
               /\ UNCHANGED << failed, log, pc, cdl >>
          ELSE /\ cdl' = r.cdl
               /\ script' = "transliteration"
               /\ UNCHANGED << failed, log, pc >>
    /\ UNCHANGED << df, run, infile, glyph_vars, tokens, langs, corpus, texts,
                    lookup_vars >>

\* The loop of _load_transliterations_and_convert_to_df is at the text pc:
\* text.load_contents() in the try. When it raises, the file id is appended
\* to failed and the loop goes on to the next text.
LoadContents ==
    /\ script = "load_contents"
    /\ pc \in 1..Len(corpus)
    /\ \E r \in { load_contents(corpus[pc]) } :
          IF Raised(r)
          THEN /\ failed' = Append(failed, corpus[pc].file_id)
               /\ log' = log \cup {<< "text", << corpus[pc].file_id >> >>}
               /\ pc' = pc + 1
               /\ UNCHANGED << script, cdl >>
          ELSE /\ cdl' = r.cdl
               /\ script' = "transliteration"
               /\ UNCHANGED << failed, log, pc >>
    /\ UNCHANGED << df, run, infile, glyph_vars, tokens, langs, corpus, texts,
                    lookup_vars >>

\* The rest of the loop body: text.transliteration() and texts.append
Transliteration ==
    /\ script = "transliteration"
    /\ \E w \in { _crawl_cdl_for_text(cdl) } :
          \E t \in { transliteration(w) } :
              /\ tokens' = w.tokens
              /\ langs' = w.langs
              /\ texts' = Append(texts, [id |-> corpus[pc].file_id,
                                         transliteration |-> t.text,
                                         langs |-> t.langs])
    /\ pc' = pc + 1
    /\ script' = "load_contents"
    /\ UNCHANGED << df, log, run, infile, glyph_vars, cdl, corpus, failed,
                    lookup_vars >>

\* After the loop: the failures are printed, and the texts, when there are
\* any, make the frame that is returned
ConvertToDf ==
    /\ script = "load_contents"
    /\ pc = Len(corpus) + 1
    /\ log' = log \cup (IF failed # <<>> THEN {<< "Failed to load: ", failed >>} ELSE {})
                  \cup (IF texts = <<>> THEN {<< "No texts loaded from corpus", <<>> >>} ELSE {})
    /\ df' = IF texts = <<>> THEN None ELSE texts
    /\ script' = "loaded"
    /\ UNCHANGED << pc, run, infile, glyph_vars, walk_vars, load_vars, lookup_vars >>

NextLoad == LoadContents \/ Transliteration \/ ConvertToDf

\* ---- input files ----

MaxRawNodes == 3

MaxTexts == 3

RawLemma ==
    [node |-> "l", id |-> "P1.1.1", ref |-> "P1.1.1", inst |-> "a", props |-> <<>>,
     frag |-> Chars("a"), f |-> [form |-> Chars("a"), lang |-> Chars("sux"), gdl |-> <<>>]]

\* leaves of the five kinds, leaves of no known kind (with and without a
\* "node" key, and one that has a "linkbase" key), and leaves of a known kind
\* that the class refuses
RawLeaves ==
    { [node |-> "d", type |-> "line-start"],
      [node |-> "d", type |-> "surface"],
      [node |-> "d", type |-> "nonx", state |-> Chars("missing")],
      RawLemma,
      [RawLemma EXCEPT !.frag = Chars("b"), !.f.lang = Chars("akk")],
      [node |-> "ll", id |-> "P1.1.2", choices |-> <<>>],
      [linkbase |-> <<>>],
      [node |-> "x"],
      [id |-> "P1.1.3"],
      [node |-> "x", linkbase |-> <<>>],
      [node |-> "d", type |-> "page"],
      [node |-> "l", id |-> "P1.1.4"] }

RawChunk(nodes) == [node |-> "c", type |-> "sentence", id |-> "P1.U0", cdl |-> nodes]

\* a node of no known kind that has children
RawOther(nodes) == [node |-> "y", cdl |-> nodes]

\* the raw trees with exactly n nodes, and the lists of raw trees with n
\* nodes in all
RECURSIVE RawTrees(_), RawForests(_)
RawTrees(n) ==
    (IF n = 1 THEN RawLeaves ELSE {})
        \cup { RawChunk(f) : f \in RawForests(n - 1) }
        \cup { RawOther(f) : f \in RawForests(n - 1) }

RawForests(n) ==
    IF n = 0 THEN { <<>> }
    ELSE UNION { { << t >> \o f : t \in RawTrees(k), f \in RawForests(n - k) } :
                 k \in 1..n }

FileIds == << "P1", "P2", "P3", "P4" >>

\* the text of a corpus at position k: its file id and what the file of that
\* name holds (NoFile when there is no such file)
CorpusText(k, file) == [file_id |-> FileIds[k], file |-> file]

\* the files of the corpora of several texts: two that load, no file, a file
\* without a "cdl" key, a node of no known kind inside a chunk, a refused node
InputFiles ==
    { [cdl |-> << [node |-> "d", type |-> "surface"], RawLemma >>],
      [cdl |-> << RawChunk(<< [RawLemma EXCEPT !.frag = Chars("b")] >>) >>],
      NoFile,
      [type |-> "cdl"],
      [cdl |-> << RawLemma, RawChunk(<< [node |-> "x"] >>) >>],
      [cdl |-> << [node |-> "d", type |-> "page"] >>] }

RECURSIVE Corpora(_)
Corpora(n) ==
    IF n = 0 THEN { <<>> }
    ELSE { Append(c, t) :
             c \in Corpora(n - 1),
             t \in { CorpusText(n, file) : file \in InputFiles }
                     \cup { [file_id |-> "", file |-> NoFile] } }

InitLoad ==
    /\ script = "load_contents"
    /\ corpus \in UNION { Corpora(n) : n \in 0..MaxTexts }
                    \cup { << CorpusText(1, [cdl |-> f]) >> :
                             f \in UNION { RawForests(n) : n \in 0..MaxRawNodes } }
    /\ pc = 1
    /\ texts = <<>>
    /\ failed = <<>>
    /\ osl = <<>>
    /\ morpheme_to_glyph_names = << >>
    /\ glyph_name_to_glyphs = << >>
    /\ outfiles = <<>>
    /\ cdl = <<>>
    /\ tokens = <<>>
    /\ langs = {}
    /\ df = <<>>
    /\ log = {}
    /\ run = 1
    /\ infile = <<>>
    /\ lists = NoLists
    /\ glyph_to_observed_readings = << >>
    /\ resolved = {}

SpecLoad == InitLoad /\ [][NextLoad]_vars

\* the loop and the conversion after it run to their end
SpecLoadFair == SpecLoad /\ WF_vars(NextLoad)

\* ---- C12 ----

\* the raw nodes of a list of raw trees, at every depth
RECURSIVE NodesIn(_)
NodesIn(nodes) ==
    UNION { {nodes[k]} \cup (IF "cdl" \in DOMAIN nodes[k]
                             THEN NodesIn(nodes[k].cdl) ELSE {}) :
            k \in 1..Len(nodes) }

\* the discriminator is none of c, d, l, ll and there is no linkbase key
UnknownKind(n) ==
    GetOr(n, "node", "") \notin {"c", "d", "l", "ll"} /\ "linkbase" \notin DOMAIN n

\* every node below n parses
ChildrenParse(n) ==
    "cdl" \in DOMAIN n =>
        \A k \in 1..Len(n.cdl) : ~Raised(parse_cdl_node(n.cdl[k]))

\* C12: parsing a node of unknown kind (not c, d, l, ll, and no linkbase key)
\* raises, at whatever depth of a text's tree the node sits, and the error is
\* "Unknown node type: " with the node's kind unless a node below it failed
\* first; the text that holds the node fails to load, is recorded as failed
\* and gets no row: the node is neither accepted nor dropped.
C12_UnknownKindFails ==
    \A k \in 1..Len(corpus) :
        (corpus[k].file_id # "" /\ "cdl" \in DOMAIN corpus[k].file) =>
            \A n \in NodesIn(corpus[k].file.cdl) :
                UnknownKind(n) =>
                    /\ Raised(parse_cdl_node(n))
                    /\ ChildrenParse(n) =>
                           parse_cdl_node(n)
                               = Raise("ValueError",
                                       << "Unknown node type: ", GetOr(n, "node", "") >>)
                    /\ Raised(load_contents(corpus[k]))
                    /\ pc > k =>
                           /\ corpus[k].file_id \in Range(failed)
                           /\ \A j \in 1..Len(texts) : texts[j].id # corpus[k].file_id

\* C12 witness: a text whose only node of unknown kind sits two chunks deep
\* failed to load with the error that names the kind
C12_NestedUnknownFailed ==
    /\ Len(corpus) = 1
    /\ corpus[1].file = [cdl |-> << RawChunk(<< RawChunk(<< [node |-> "x"] >>) >>) >>]
    /\ load_contents(corpus[1]) = Raise("ValueError", << "Unknown node type: ", "x" >>)
    /\ pc = 2
    /\ failed = << "P1" >>
    /\ texts = <<>>

\* ---- C13 ----

Loads(k) == ~Raised(load_contents(corpus[k]))

\* the file ids of the texts among the first n that load, or that do not, in
\* corpus order
IdsOfFirst(n, loading) ==
    LET ks == SelectSeq([k \in 1..n |-> k], LAMBDA k : Loads(k) = loading)
    IN  [j \in 1..Len(ks) |-> corpus[ks[j]].file_id]

\* the row of the text k: its id and the transliteration of its parsed tree
RowOf(k) ==
    LET t == transliteration(_crawl_cdl_for_text(load_contents(corpus[k]).cdl))
    IN  [id |-> corpus[k].file_id, transliteration |-> t.text, langs |-> t.langs]

\* the texts the loop has passed are split between the rows and the failures
LoopSplitsTexts ==
    /\ pc \in 1..(Len(corpus) + 1)
    /\ failed = IdsOfFirst(pc - 1, FALSE)
    /\ [j \in 1..Len(texts) |-> texts[j].id] = IdsOfFirst(pc - 1, TRUE)
    /\ \A j \in 1..Len(texts) :
           \E k \in 1..(pc - 1) : Loads(k) /\ texts[j] = RowOf(k)
    /\ (script = "loaded" /\ texts # <<>>) => df = texts

Literal(node) == IF node.frag # <<>> THEN node.frag ELSE node.f.form

OpenShutLemma(node) ==
    node.node = "l" /\ ideal_bracket_seq(node.f.gdl) = << "[", "]" >>

\* C14: for a tree that is one Lemma whose ideal bracket sequence is exactly
\* `[]`, whatever the literal text, the text walker's one token has the
\* square-bracket projection `[]`, and a literal text without square brackets
\* comes out as `[` + text + `]`; the extract function of cdl.py gives the
\* same text for the node.
C14_OpenShutProjection ==
    (script = "_crawl_cdl_for_text" /\ Len(cdl) = 1 /\ OpenShutLemma(cdl[1])) =>
        /\ Len(tokens) = 1
        /\ actual_bracket_seq(tokens[1]) = << "[", "]" >>
        /\ actual_bracket_seq(Literal(cdl[1])) = <<>> =>
               tokens[1] = << "[" >> \o Literal(cdl[1]) \o << "]" >>
        /\ extract_text_from_node(cdl[1]) = tokens[1]

\* The literal text `]a[` has been walked: both brackets were added, the
\* projection was `[][]`, and the text was stripped and wrapped to `[a]`.
C14_WrongBracketsWrapped ==
    /\ script = "_crawl_cdl_for_text"
    /\ Len(cdl) = 1
    /\ OpenShutLemma(cdl[1])
    /\ Literal(cdl[1]) = Chars("]a[")
    /\ tokens = << Chars("[a]") >>

\* ---- C15 ----

\* main of 5_add_glyphs.py is running or has run
InGlyphStage ==
    script \in { "add_glyphs", "drop_rows_with_identical_transliterations",
                 "drop_rows_with_identical_glyphs", "written" }

\* the result triples of the wordforms of one text, in order
TriplesIn(text) ==
    The({ Flatten([k \in 1..Len(w) |-> get_wordform_glyph_data(w[k]).data]) :
          w \in { Wordforms(text) } })

\* the result triples produced so far: those of the records the loop of
\* _add_glyphs has passed, each as it was read from the cleaned file
Produced ==
    IF InGlyphStage
    THEN Flatten([i \in 1..(pc - 1) |->
                     TriplesIn(ReplacePairs(infile[i][KEY], ALL_REPLACEMENTS))])
    ELSE <<>>

CountsOf(produced) ==
    /\ \A glyph \in DOMAIN glyph_to_observed_readings :
           \A morpheme \in DOMAIN glyph_to_observed_readings[glyph] :
               /\ morpheme \notin SPECIAL_TOKENS
               /\ glyph_to_observed_readings[glyph][morpheme] =
                      Cardinality({ k \in 1..Len(produced) :
                                      /\ produced[k][1] = morpheme
                                      /\ produced[k][3] = glyph })
    /\ \A k \in 1..Len(produced) :
           produced[k][1] \notin SPECIAL_TOKENS =>
               /\ produced[k][3] \in DOMAIN glyph_to_observed_readings
               /\ produced[k][1] \in DOMAIN glyph_to_observed_readings[produced[k][3]]

AccumulatorGrows ==
    \A glyph \in DOMAIN glyph_to_observed_readings :
        /\ glyph \in DOMAIN glyph_to_observed_readings'
        /\ \A morpheme \in DOMAIN glyph_to_observed_readings[glyph] :
               /\ morpheme \in DOMAIN glyph_to_observed_readings'[glyph]
               /\ glyph_to_observed_readings'[glyph][morpheme] >=
                      glyph_to_observed_readings[glyph][morpheme]

\* C15: over a run the observed-reading accumulator only grows (no glyph and
\* no morpheme leaves it, no count goes down), and at every point the count
\* it holds for a glyph and a morpheme is the number of result triples
\* (morpheme, _, glyph) produced so far, for the morphemes that are not
\* special tokens; a morpheme that is a special token has no count.
C15_AccumulatorCounts ==
    /\ [](\A produced \in { Produced } : CountsOf(produced))
    /\ [][AccumulatorGrows]_vars

\* The record `ka`, newline, `ka` has been resolved: ka is counted twice
\* under the glyph of KA and the newline between is not counted.
C15_KaCountedTwice ==
    /\ script = "add_glyphs"
    /\ pc = 2
    /\ infile[1][KEY] = Chars("ka\nka")
    /\ Len(Produced) = 3
    /\ glyph_to_observed_readings = (<<"g_KA">> :> (Chars("ka") :> 2))

\* ---- C16 ----

\* the sum of the counts of a Counter
RECURSIVE Total(_)
Total(counter) ==
    IF DOMAIN counter = {} THEN 0
    ELSE LET m == CHOOSE x \in DOMAIN counter : TRUE
         IN  counter[m] + Total([x \in DOMAIN counter \ {m} |-> counter[x]])

\* the observations held under a glyph
Under(g, glyph) == IF glyph \in DOMAIN g THEN Total(g[glyph]) ELSE 0

\* the triples of the morpheme resolutions of a text: those of its wordforms
\* that are not special tokens
ResolutionsIn(text) ==
    The({ Flatten([k \in 1..Len(w) |-> get_wordform_glyph_data(w[k]).data]) :
          w \in { SelectSeq(Wordforms(text), LAMBDA wf : wf \notin SPECIAL_TOKENS) } })

\* _add_glyphs_to_row has resolved the record at pc in this step
RowResolved == script = "add_glyphs" /\ pc \in 1..Len(df) /\ pc' = pc + 1

\* the step adds, under every glyph, one observation for each of the triples
\* at the indices `counted` that carries the glyph, and nothing else
AddsUnderFinalGlyph(t, counted) ==
    \A glyph \in DOMAIN glyph_to_observed_readings' \cup { t[k][3] : k \in 1..Len(t) } :
        Under(glyph_to_observed_readings', glyph)
            = Under(glyph_to_observed_readings, glyph)
                  + Cardinality({ k \in counted : t[k][3] = glyph })

\* C16 as stated: resolving a record adds, for every morpheme resolution of
\* its wordforms (a success as well as a fallback to the unknown triple), one
\* observation under the glyph of the triple, and nothing for the wordforms
\* that are special tokens.
C16_EveryResolutionObserved ==
    [][RowResolved =>
           \A t \in { ResolutionsIn(df[pc].transliteration) } :
               AddsUnderFinalGlyph(t, 1..Len(t))]_vars

\* C16, amended: resolving a record adds one observation under the glyph of
\* the triple for every morpheme resolution whose triple does not carry the
\* unknown token or the missing marker as its morpheme; a fallback to the
\* unknown triple, a placeholder resolved to the missing marker and a
\* wordform that is a special token add nothing.
C16_SuccessfulResolutionObserved ==
    [][RowResolved =>
           \A t \in { ResolutionsIn(df[pc].transliteration) } :
               AddsUnderFinalGlyph(t, { k \in 1..Len(t) :
                                          t[k][1] \notin { UNK, Chars("...") } })]_vars

\* The record `zzz-ta` has been resolved: ta is counted under the glyph of
\* TA, and the unknown triple of zzz is counted nowhere.
C16_FallbackNotObserved ==
    /\ script = "add_glyphs"
    /\ pc = 2
    /\ infile[1][KEY] = Chars("zzz-ta")
    /\ TriplesIn(Chars("zzz-ta")) = << << UNK, UNK, UNK >>,
                                       << Chars("ta"), Chars("TA"), <<"g_TA">> >> >>
    /\ glyph_to_observed_readings = (<<"g_TA">> :> (Chars("ta") :> 1))

----------------------------------------------------------------------------
(* 4_create_lookups: the two lookup tables built from the sign list        *)

\* A sign or a form of osl.json is a record with the name n and, when the
\* file gives them, ucun ("sl:ucun"), aka ("j:aka", entries [n]), values
\* ("j:values", entries with or without v, "sl:v") and forms ("j:forms").

\* glyph_name.replace("&amp;", "&")
Unescaped(glyph_name) == Replace(glyph_name, Chars("&amp;"), Chars("&"))

\* the calls of _add_glyph for a sign or a form: its name and its aka names,
\* each with the unicode of the sign or form
AddGlyphCalls(entry) ==
    LET unicode == GetOr(entry, "ucun", <<>>)
        akas    == GetOr(entry, "aka", <<>>)
    IN  << << Unescaped(entry.n), unicode >> >>
            \o [k \in 1..Len(akas) |-> << Unescaped(akas[k].n), unicode >>]

\* the calls of _add_reading for a sign or a form: one for each of its
\* values that has the "sl:v" key
AddReadingCalls(entry) ==
    LET values == SelectSeq(GetOr(entry, "values", <<>>), LAMBDA x : "v" \in DOMAIN x)
    IN  [k \in 1..Len(values) |-> << values[k].v.n, Unescaped(entry.n) >>]

\* a sign followed by its forms
WithForms(sign) == << sign >> \o GetOr(sign, "forms", <<>>)

\* a defaultdict(set) after `d[key].add(value)` for every << key, value >>
DictOfSets(calls) ==
    [key \in { calls[k][1] : k \in 1..Len(calls) } |->
        { calls[k][2] : k \in { j \in 1..Len(calls) : calls[j][1] = key } }]

_process_json(letters) ==
    The({ [morpheme_to_glyph_names |->
               DictOfSets(Flatten([k \in 1..Len(entries) |-> AddReadingCalls(entries[k])])),
           glyph_name_to_glyphs |->
               DictOfSets(Flatten([k \in 1..Len(entries) |-> AddGlyphCalls(entries[k])]))] :
          entries \in { Flatten([k \in 1..Len(signs) |-> WithForms(signs[k])]) :
                        signs \in { Flatten(letters) } } })

\* the lists a set can be iterated as: the iteration order of a set of
\* strings is not fixed by its elements (it follows the string hashes of
\* the process)
RECURSIVE Iterations(_)
Iterations(S) ==
    IF S = {} THEN { <<>> }
    ELSE UNION { { << x >> \o rest : rest \in Iterations(S \ {x}) } : x \in S }

\* the dicts of lists with, for every key, one of the lists of choices[key]
RECURSIVE DictsOver(_)
DictsOver(choices) ==
    IF DOMAIN choices = {} THEN { << >> }
    ELSE LET key == CHOOSE k \in DOMAIN choices : TRUE
         IN  { (key :> vals) @@ rest :
                   vals \in choices[key],
                   rest \in DictsOver([k \in DOMAIN choices \ {key} |-> choices[k]]) }

\* _remove_empty_strings(d): {key: [v for v in vals if v != ""]}, every dict
\* the iteration of the sets can give
_remove_empty_strings(d) ==
    DictsOver([key \in DOMAIN d |-> Iterations(d[key] \ { <<>> })])

\* epsd2-sl.json, "index": reading -> glyph name
EPSD2_SL == << << Chars("ka"), Chars("KA") >> >>

\* morpheme_to_glyph_names[k] = [v] for the items of EPSD2_SL
WithEPSD2(m) ==
    [k \in DOMAIN m \cup Keys(EPSD2_SL) |->
        IF k \in Keys(EPSD2_SL) THEN << Get(EPSD2_SL, k) >> ELSE m[k]]

\* {key: vals[0] if vals else "" for key, vals in glyph_name_to_glyphs.items()}
SingleMapping(g) ==
    [key \in DOMAIN g |-> IF g[key] # <<>> THEN g[key][1] ELSE <<>>]

\* main: morpheme_to_glyph_names, glyph_name_to_glyphs = _process_json()
ProcessJson ==
    /\ script = "create_lookups"
    /\ \E r \in { _process_json(osl) } :
           /\ morpheme_to_glyph_names' = r.morpheme_to_glyph_names
           /\ glyph_name_to_glyphs' = r.glyph_name_to_glyphs
    /\ script' = "remove_empty_strings"
    /\ UNCHANGED << df, pc, log, run, infile, glyph_vars, walk_vars, load_vars,
                    osl, outfiles >>

\* main: the two calls of _remove_empty_strings
RemoveEmptyStrings ==
    /\ script = "remove_empty_strings"
    /\ morpheme_to_glyph_names' \in _remove_empty_strings(morpheme_to_glyph_names)
    /\ glyph_name_to_glyphs' \in _remove_empty_strings(glyph_name_to_glyphs)
    /\ script' = "write_lookups"
    /\ UNCHANGED << df, pc, log, run, infile, glyph_vars, walk_vars, load_vars,
                    osl, outfiles >>

\* main: the EPSD2_SL mappings are added, the names with more than one
\* glyph are printed, and the two files are written
WriteLookups ==
    /\ script = "write_lookups"
    /\ morpheme_to_glyph_names' = WithEPSD2(morpheme_to_glyph_names)
    /\ log' = log \cup { << "Glyph has more than one representation",
                            << glyph_name, glyph_name_to_glyphs[glyph_name] >> >> :
                         glyph_name \in { k \in DOMAIN glyph_name_to_glyphs :
                                            Len(glyph_name_to_glyphs[k]) > 1 } }
    /\ outfiles' = Append(outfiles,
                          [morpheme_to_glyph_names |-> morpheme_to_glyph_names',
                           glyph_name_to_glyph |-> SingleMapping(glyph_name_to_glyphs)])
    /\ script' = "lookups_written"
    /\ UNCHANGED << df, pc, run, infile, glyph_vars, walk_vars, load_vars,
                    osl, glyph_name_to_glyphs >>

\* the script is run again, in a new process, on the same osl.json
CreateLookupsAgain ==
    /\ script = "lookups_written"
    /\ run < MaxRuns
    /\ run' = run + 1
    /\ script' = "create_lookups"
    /\ morpheme_to_glyph_names' = << >>
    /\ glyph_name_to_glyphs' = << >>
    /\ UNCHANGED << df, pc, log, infile, glyph_vars, walk_vars, load_vars,
                    osl, outfiles >>

NextLookups == ProcessJson \/ RemoveEmptyStrings \/ WriteLookups \/ CreateLookupsAgain

\* ---- sign lists ----

MaxSigns == 2

SignNames == { Chars("KA"), Chars("A&amp;B"), Chars("A&B") }

Values == << [v |-> [n |-> Chars("ka")]], [q |-> [n |-> Chars("ka?")]] >>

\* a form named like a sign, with a glyph of its own and a reading, and a
\* form with no glyph and an aka name
InputForms ==
    { [n |-> Chars("KA"), ucun |-> <<"g_2">>, values |-> Values],
      [n |-> Chars("A&B"), aka |-> << [n |-> Chars("KA")] >>] }

Optional(key, vals) == { << >> } \cup { key :> v : v \in vals }

InputSigns ==
    { [n |-> name] @@ ucun @@ aka @@ values @@ forms :
        name \in SignNames,
        ucun \in Optional("ucun", { <<"g_1">>, <<"g_2">> }),
        aka \in Optional("aka", { << [n |-> Chars("KA")] >> }),
        values \in Optional("values", { Values }),
        forms \in Optional("forms", { << f >> : f \in InputForms }) }

\* the sign lists of at most n signs, in one letter or one letter a sign
RECURSIVE SignLists(_)
SignLists(n) ==
    IF n = 0 THEN { <<>> }
    ELSE SignLists(n - 1)
             \cup { Append(l, s) : l \in { x \in SignLists(n - 1) : Len(x) = n - 1 },
                                   s \in InputSigns }

InitLookups ==
    /\ script = "create_lookups"
    /\ osl \in { << l >> : l \in SignLists(MaxSigns) }
                 \cup { [k \in 1..Len(l) |-> << l[k] >>] : l \in SignLists(MaxSigns) }
    /\ morpheme_to_glyph_names = << >>
    /\ glyph_name_to_glyphs = << >>
    /\ outfiles = <<>>
    /\ run = 1
    /\ log = {}
    /\ corpus = <<>>
    /\ texts = <<>>
    /\ failed = <<>>
    /\ cdl = <<>>
    /\ tokens = <<>>
    /\ langs = {}
    /\ df = <<>>
    /\ pc = 0
    /\ infile = <<>>
    /\ lists = NoLists
    /\ glyph_to_observed_readings = << >>
    /\ resolved = {}

SpecLookups == InitLookups /\ [][NextLookups]_vars

\* ---- C17 ----

\* the glyphs the sign list gives for every name: the non-empty unicodes of
\* the signs, forms and aka entries of that name
GlyphsGiven ==
    The({ [name \in DOMAIN g |-> g[name] \ { <<>> }] :
          g \in { _process_json(osl).glyph_name_to_glyphs } })

\* every written table has every name of the sign list, each with one glyph
\* string: one of the glyphs the list gives for it, or the empty string when
\* it gives none
OneGlyphEach(given) ==
    \A k \in 1..Len(outfiles) :
        /\ DOMAIN outfiles[k].glyph_name_to_glyph = DOMAIN given
        /\ \A name \in DOMAIN given :
               IF given[name] = {}
               THEN outfiles[k].glyph_name_to_glyph[name] = <<>>
               ELSE outfiles[k].glyph_name_to_glyph[name] \in given[name]

\* C17 as stated: every table written maps every sign name of the list to
\* exactly one glyph string (empty when the list gives none), and two builds
\* from the same sign list write the same sign-name to glyph mapping.
C17_BuildsAgree ==
    outfiles # <<>> =>
        /\ \A given \in { GlyphsGiven } : OneGlyphEach(given)
        /\ \A j \in 1..Len(outfiles) : \A k \in 1..Len(outfiles) :
               outfiles[j].glyph_name_to_glyph = outfiles[k].glyph_name_to_glyph

\* C17, what holds: every table written maps every sign name of the list to
\* exactly one glyph string, one the list gives for the name (empty when it
\* gives none), and two builds from the same sign list agree on every name
\* for which the list gives at most one non-empty glyph.
C17_BuildsAgreeOnSingleGlyphs ==
    outfiles # <<>> =>
        \A given \in { GlyphsGiven } :
            /\ OneGlyphEach(given)
            /\ \A j \in 1..Len(outfiles) : \A k \in 1..Len(outfiles) :
                   \A name \in DOMAIN given :
                       Cardinality(given[name]) <= 1 =>
                           outfiles[j].glyph_name_to_glyph[name]
                               = outfiles[k].glyph_name_to_glyph[name]

\* The sign list gives two glyphs for KA (the sign KA and a form named KA),
\* and two builds from it wrote different glyphs for KA.
C17_TwoBuildsDiffer ==
    /\ script = "lookups_written"
    /\ osl = << << [n |-> Chars("KA"), ucun |-> <<"g_1">>,
                    forms |-> << [n |-> Chars("KA"), ucun |-> <<"g_2">>,
                                  values |-> Values] >>] >> >>
    /\ Len(outfiles) = 2
    /\ outfiles[1].glyph_name_to_glyph = (Chars("KA") :> <<"g_1">>)
    /\ outfiles[2].glyph_name_to_glyph = (Chars("KA") :> <<"g_2">>)

\* ---- C18 ----

\* the texts of the dollar-sign step: at most MaxDollarAtoms of the strings
\* of its loop, a sign, a space, a hyphen and a dollar sign
MaxDollarAtoms == 2

DollarAtoms ==
    Range(DollarStrings) \cup { <<"a">>, << SP >>, << HY >>, <<"$">> }

RECURSIVE DollarTexts(_)
DollarTexts(n) ==
    IF n = 0 THEN { <<>> }
    ELSE LET shorter == DollarTexts(n - 1)
         IN  shorter \cup { t \o a : t \in shorter, a \in DollarAtoms }

InitDollar ==
    /\ script = "clean"
    /\ df \in { << NewRow(i, t) >> : i \in Ids, t \in DollarTexts(MaxDollarAtoms) }
    /\ pc = 1
    /\ log = {}
    /\ run = 1
    /\ infile = <<>>
    /\ lists = NoLists
    /\ glyph_to_observed_readings = << >>
    /\ resolved = {}
    /\ cdl = <<>>
    /\ tokens = <<>>
    /\ langs = {}
    /\ corpus = <<>>
    /\ texts = <<>>
    /\ failed = <<>>
    /\ osl = <<>>
    /\ morpheme_to_glyph_names = << >>
    /\ glyph_name_to_glyphs = << >>
    /\ outfiles = <<>>

SpecDollar == InitDollar /\ [][NextClean]_vars

\* _dollar_signs runs in this step
DollarStep == AtFn("dollar_signs") /\ pc' = pc + 1

\* text.replace(s, new) for every s of strs in order, written as
\* new.join(text.split(s))
RECURSIVE JoinedEach(_, _, _)
JoinedEach(text, strs, new) ==
    IF strs = <<>> THEN text
    ELSE JoinedEach(Join(Split(text, strs[1]), new), Tail(strs), new)

\* C18 as stated: the dollar-sign step turns the `$ traces $` and
\* `$erasure$` spans into the missing marker, and each of the fixed `$SIGN`
\* prefixes ($AN, $MU, $UŠ, $KID, $DI, $GA₂, $HAR) loses only its `$` and
\* keeps the sign text.
C18_PrefixLosesDollar ==
    [][DollarStep =>
           \A i \in 1..Len(df) : df'[i] = dollar_signs_keep_sign(df[i])]_vars

\* C18, what holds: the dollar-sign step turns each of the strings of its
\* loop, the three spans and the seven `$SIGN` prefixes alike, into the
\* missing marker, in the order of the loop; none of them is left and the
\* sign text of a prefix is not kept.
C18_PrefixBecomesMissing ==
    [][DollarStep =>
           \A i \in 1..Len(df) :
               /\ df'[i][KEY] = JoinedEach(df[i][KEY], DollarStrings, MISSING)
               /\ \A k \in 1..Len(DollarStrings) :
                      ~Contains(df'[i][KEY], DollarStrings[k])]_vars

\* The record `$AN` has passed the dollar-sign step: its text is the missing
\* marker, not `AN`.
C18_SignTextLost ==
    /\ script = "clean"
    /\ pc \in 2..Len(fns)
    /\ fns[pc - 1] = "dollar_signs"
    /\ df[1].transliteration = <<"$", "A", "N">>
    /\ df[1][KEY] = MISSING

\* ---- C19 ----

Swapped(glyph_name) ==
    IF glyph_name \in Keys(SWAP_GLYPH_NAMES)
    THEN Get(SWAP_GLYPH_NAMES, glyph_name) ELSE glyph_name

\* a morpheme that reaches the test `morpheme in GLYPH_NAMES` and passes it
IsSignName(m) ==
    /\ m \notin { <<"x">>, <<"n">>, <<"X">>, <<"N">> }
    /\ MatchEnd(NUMERIC_PATTERN, m, 1) = 0
    /\ m \in GLYPH_NAMES

\* C19 as stated: a morpheme that is itself a sign name of the table, with a
\* usable glyph, resolves to the triple of the unknown display text, that
\* sign name (after the swap table) and the glyph of the sign.
C19_SignNameKeepsGlyph ==
    \A r \in resolved :
        (IsSignName(r[1]) /\ Usable(Swapped(r[1]))) =>
            r[2] = << << UNK, Swapped(r[1]),
                         Get(GLYPH_NAME_TO_UNICODE, Swapped(r[1])) >> >>

\* C19, what holds: a morpheme that is itself a sign name of the table, with
\* a usable glyph, has itself as its single candidate and the unknown token
\* as its display text, and its result triple is the unknown triple: neither
\* the sign name nor the glyph is written.
C19_SignNameBecomesUnknown ==
    \A r \in resolved :
        (IsSignName(r[1]) /\ Usable(Swapped(r[1]))) =>
            /\ Candidates(r[1]) = << r[1] >>
            /\ get_morpheme_glyph_names(r[1]).morpheme = UNK
            /\ r[2] = << << UNK, UNK, UNK >> >>

\* The record `KA` has been resolved: KA is a sign name with a glyph, and
\* the three columns of the record hold the unknown token.
C19_KaUnknown ==
    /\ script = "add_glyphs"
    /\ pc = 2
    /\ infile[1][KEY] = Chars("KA")
    /\ IsSignName(Chars("KA"))
    /\ Usable(Chars("KA"))
    /\ << Chars("KA"), << << UNK, UNK, UNK >> >> >> \in resolved
    /\ df[1].transliteration = UNK
    /\ df[1].glyph_names = UNK
    /\ df[1].glyphs = UNK

\* ---- C20 ----

\* the morpheme has no candidate or several, or its single candidate, after
\* the swap table, has no usable glyph: it is no key of the sign-name table,
\* or its glyph is empty or holds the placeholder character X
Unresolvable(m) ==
    \/ Len(Candidates(m)) # 1
    \/ ~Usable(Swapped(Candidates(m)[1]))

\* the sign names a text gives, morpheme by morpheme: a special token gives
\* itself, a morpheme the sign names of its triples
NamesGivenIn(text) ==
    The({ Flatten([k \in 1..Len(w) |->
              IF w[k] \in SPECIAL_TOKENS THEN << w[k] >>
              ELSE The({ Flatten([j \in 1..Len(ms) |->
                                     Column(morpheme_glyph_data(ms[j]).data, 2)]) :
                         ms \in { split_wordform_into_morphemes(w[k]) } })]) :
          w \in { Wordforms(text) } })

\* every record the loop has passed holds the sign names of all its
\* morphemes, in order: an unknown morpheme does not end the record
ResolvedThrough ==
    script = "add_glyphs" =>
        \A i \in 1..(pc - 1) :
            SelectSeq(Split(df[i].glyph_names, << SP >>), LAMBDA n : n # <<>>)
                = NamesGivenIn(ReplacePairs(infile[i][KEY], ALL_REPLACEMENTS))

\* C20 as stated: every morpheme that has no candidate or several, or whose
\* single (swapped) sign name is no key of the sign-name table or has an
\* empty glyph or a glyph with X, gets the unknown triple, and the other
\* morphemes of the record are resolved all the same.
C20_UnresolvableIsUnknown ==
    /\ \A r \in resolved : Unresolvable(r[1]) => r[2] = << << UNK, UNK, UNK >> >>
    /\ ResolvedThrough

\* C20, amended: the same for every morpheme other than the placeholders x,
\* n, X and N, whose single candidate is the missing marker and whose triple
\* is the missing marker three times, and other than a morpheme whose single
\* candidate is the sign name N, which gets no triple.
C20_UnresolvableButPlaceholder ==
    /\ \A r \in resolved :
           IF r[1] \in { <<"x">>, <<"n">>, <<"X">>, <<"N">> }
           THEN r[2] = << << Chars("..."), Chars("..."), Chars("...") >> >>
           ELSE IF Candidates(r[1]) = << <<"N">> >>
           THEN r[2] = <<>>
           ELSE Unresolvable(r[1]) => r[2] = << << UNK, UNK, UNK >> >>
    /\ ResolvedThrough

\* The record `zzz-ta` has been resolved: zzz has no
\* candidate and got the unknown triple, and ta after it was resolved.
C20_UnknownThenResolved ==
    /\ script = "add_glyphs"
    /\ pc = 2
    /\ infile[1][KEY] = Chars("zzz-ta")
    /\ Candidates(Chars("zzz")) = <<>>
    /\ << Chars("zzz"), << << UNK, UNK, UNK >> >> >> \in resolved
    /\ df[1].glyph_names = Chars("<unk> TA")

\* ===================================================================
\* The Glyph Resolver on wordforms with parentheses, determinatives of
\* several signs and a sign name that gets no triple
\* ===================================================================

\* the records of the resolver runs, one wordform each: a reading of the
\* sign name N before and after a resolved reading and alone; readings with
\* a sign name in parentheses for each case of the precedence; determinatives
\* of one and of several signs; a hyphen within parentheses; numbers that
\* the numeral table writes out; a leading hyphen; an unknown reading
ResolverWordforms ==
    { Chars("nn-ka"), Chars("ka-nn"), Chars("nn"), Chars("zzz-nn-ta"),
      Chars("ka(LA)"), Chars("du(KAS)"), Chars("du(KA)"), Chars("du(TA)"),
      Chars("zzz(TA)"), Chars("zzz(KA)"), Chars("zzz(QQ)"), Chars("du(DU)-ta"),
      Chars("{ki-ka}lugal"), Chars("lugal{ki}-ta"), Chars("{ki}lugal"),
      Chars("du(KAS-ka)-ta"), Chars("ka(LA-LA)"), Chars("11-ta"), Chars("11"),
      Chars("1-ta"), Chars("-ka"), Chars("zzz"), Chars("lugal-la-ka"),
      Chars("KA-ka"), Chars("bad-ka"), Chars("x-ka"), Chars("un-ka") }

InitResolver ==
    /\ script = "clean"
    /\ df \in { << NewRow(i, w) >> : i \in Ids, w \in ResolverWordforms }
    /\ pc = 1
    /\ log = {}
    /\ run = 1
    /\ infile = <<>>
    /\ lists = NoLists
    /\ glyph_to_observed_readings = << >>
    /\ resolved = {}
    /\ cdl = <<>>
    /\ tokens = <<>>
    /\ langs = {}
    /\ corpus = <<>>
    /\ texts = <<>>
    /\ failed = <<>>
    /\ osl = <<>>
    /\ morpheme_to_glyph_names = << >>
    /\ glyph_name_to_glyphs = << >>
    /\ outfiles = <<>>

SpecResolver == InitResolver /\ [][NextClean \/ NextGlyphs]_vars

\* ---- C21 ----

\* the morphemes of a text in order, a special token standing for itself
MorphemesIn(text) ==
    The({ Flatten([k \in 1..Len(w) |->
                      IF w[k] \in SPECIAL_TOKENS THEN << w[k] >>
                      ELSE split_wordform_into_morphemes(w[k])]) :
          w \in { Wordforms(text) } })

\* the sign names written for a record, in order
NamesWritten(row) ==
    SelectSeq(Split(row.glyph_names, << SP >>), LAMBDA n : n # <<>>)

\* the sign name is one a triple of the morpheme can hold: the token itself
\* for a special token, else the unknown token or the single candidate of
\* the morpheme after the swap table
NameFor(m, name) ==
    IF m \in SPECIAL_TOKENS THEN name = m
    ELSE \/ name = UNK
         \/ Len(Candidates(m)) = 1 /\ name = Swapped(Candidates(m)[1])

\* the sign names of the record are those of the morphemes ms, one each and
\* in their order
OneNameEach(row, ms) ==
    \A names \in { NamesWritten(row) } :
        /\ Len(names) = Len(ms)
        /\ \A k \in 1..Len(ms) : NameFor(ms[k], names[k])

\* the single candidate of the morpheme is the sign name N
GetsNoTriple(m) ==
    m \notin SPECIAL_TOKENS /\ Candidates(m) = << <<"N">> >>

\* C21 as stated: for every wordform that is not a special token the
\* resolver emits exactly one triple per morpheme of the segmenter, in the
\* segmenter's order; no morpheme is dropped or duplicated.
C21_OneTriplePerMorpheme ==
    /\ \A r \in resolved : Len(r[2]) = 1
    /\ script = "add_glyphs" =>
           \A i \in 1..(pc - 1) :
               OneNameEach(df[i], MorphemesIn(
                   ReplacePairs(infile[i][KEY], ALL_REPLACEMENTS)))

\* C21, amended: the resolver emits exactly one triple, in the segmenter's
\* order, for every morpheme other than those whose single candidate is the
\* sign name N; such a morpheme gets no triple.
C21_OneTriplePerMorphemeButN ==
    /\ \A r \in resolved : Len(r[2]) = IF GetsNoTriple(r[1]) THEN 0 ELSE 1
    /\ script = "add_glyphs" =>
           \A i \in 1..(pc - 1) :
               OneNameEach(df[i],
                   SelectSeq(MorphemesIn(
                                 ReplacePairs(infile[i][KEY], ALL_REPLACEMENTS)),
                             LAMBDA m : ~GetsNoTriple(m)))

\* The record zzz-nn-ta has been resolved: of its three morphemes zzz got
\* the unknown triple, nn, whose candidate is N, got none, and ta its own.
C21_NDropped ==
    /\ script = "add_glyphs"
    /\ pc = 2
    /\ infile[1][KEY] = Chars("zzz-nn-ta")
    /\ split_wordform_into_morphemes(Chars("zzz-nn-ta"))
           = << Chars("zzz"), Chars("nn"), Chars("ta") >>
    /\ << Chars("nn"), <<>> >> \in resolved
    /\ << Chars("ta"), << << Chars("ta"), Chars("TA"), <<"g_TA">> >> >> >> \in resolved
    /\ df[1].glyph_names = Chars("<unk> TA")
    /\ df[1].transliteration = Chars("<unk>-ta")

\* ---- C22 ----

\* the morpheme is written reading(NAME): one opening parenthesis, after a
\* reading, and one closing parenthesis, at the end, after a name
OfFormReadingName(m) ==
    /\ Len(m) >= 4
    /\ Cardinality({ k \in 1..Len(m) : m[k] = "(" }) = 1
    /\ Cardinality({ k \in 1..Len(m) : m[k] = ")" }) = 1
    /\ m[1] # "("
    /\ m[Len(m)] = ")"
    /\ m[Len(m) - 1] # "("

BareReading(m) == SubSeq(m, 1, (CHOOSE k \in 1..Len(m) : m[k] = "(") - 1)

BracketedName(m) == SubSeq(m, (CHOOSE k \in 1..Len(m) : m[k] = "(") + 1, Len(m) - 1)

\* none of the rules before the one for parentheses resolves the morpheme:
\* it is no placeholder, no number, no sign name of the table, no reading of
\* the table once its braces are removed, and not in upper case
NoEarlierRule(m) ==
    /\ m \notin { <<"x">>, <<"n">>, <<"X">>, <<"N">> }
    /\ MatchEnd(NUMERIC_PATTERN, m, 1) = 0
    /\ m \notin GLYPH_NAMES
    /\ SelectSeq(m, LAMBDA c : c \notin {"{", "}"}) \notin Keys(READING_TO_GLYPH_NAME)
    /\ ~IsUpper(m)

\* the candidates of reading(NAME) by the precedence of the claim
Precedence(reading, name) ==
    IF /\ reading \in Keys(READING_TO_GLYPH_NAME)
       /\ Len(Get(READING_TO_GLYPH_NAME, reading)) = 1
    THEN Get(READING_TO_GLYPH_NAME, reading)
    ELSE IF /\ reading \in Keys(READING_TO_GLYPH_NAME)
            /\ name \in Range(Get(READING_TO_GLYPH_NAME, reading))
    THEN << name >>
    ELSE IF Cardinality({ r \in Keys(READING_TO_GLYPH_NAME) :
                            name \in Range(Get(READING_TO_GLYPH_NAME, r)) }) = 1
    THEN << name >>
    ELSE <<>>

\* the triple of a morpheme whose candidates are cs: the unknown triple
\* when there is none, else the candidate as sign name, or the unknown
\* triple when the candidate has no usable glyph
TripleOf(cs, data) ==
    /\ Len(data) = 1
    /\ IF cs = <<>> THEN data[1] = << UNK, UNK, UNK >>
       ELSE IF Usable(Swapped(cs[1]))
       THEN /\ data[1][2] = Swapped(cs[1])
            /\ data[1][3] = Get(GLYPH_NAME_TO_UNICODE, Swapped(cs[1]))
       ELSE data[1] = << UNK, UNK, UNK >>

\* C22: a morpheme reading(NAME) that no earlier rule resolves gets the
\* single candidate of the bare reading when the reading table has exactly
\* one (also when it differs from NAME); otherwise NAME when NAME is among
\* the candidates of the reading; otherwise NAME when exactly one reading
\* of the table has NAME among its candidates; otherwise no candidate, and
\* the morpheme is appended to the list of unresolved other readings.
C22_ParentheticalPrecedence ==
    \A r \in resolved :
        OfFormReadingName(r[1]) /\ NoEarlierRule(r[1]) =>
            \A cs \in { Precedence(BareReading(r[1]), BracketedName(r[1])) } :
                /\ Candidates(r[1]) = cs
                /\ TripleOf(cs, r[2])
                /\ cs = <<>> <=> r[1] \in Range(lists.unk_reading_other)

\* The record ka(LA) has been resolved: ka has the single candidate KA, which
\* is the sign name written although the name in parentheses is LA, a sign
\* name of the table with its own reading.
C22_SingleCandidateWins ==
    /\ script = "add_glyphs"
    /\ pc = 2
    /\ infile[1][KEY] = Chars("ka(LA)")
    /\ OfFormReadingName(Chars("ka(LA)")) /\ NoEarlierRule(Chars("ka(LA)"))
    /\ Get(READING_TO_GLYPH_NAME, Chars("la")) = << Chars("LA") >>
    /\ << Chars("ka(LA)"), << << Chars("ka"), Chars("KA"), <<"g_KA">> >> >> >> \in resolved
    /\ df[1].glyph_names = Chars("KA")

\* ---- C23 ----

\* the wordform as the numeral table writes it out: the whole wordform, or
\* its part before the first hyphen, when that is a key of the table
WrittenOut(wf) ==
    LET first == IF HY \in Range(wf)
                 THEN SubSeq(wf, 1, (CHOOSE i \in 1..Len(wf) :
                                        wf[i] = HY /\ HY \notin Range(SubSeq(wf, 1, i - 1))) - 1)
                 ELSE wf
    IN  IF wf \in Keys(NUMBERS_TO_READINGS) THEN Get(NUMBERS_TO_READINGS, wf)
        ELSE IF first \in Keys(NUMBERS_TO_READINGS)
        THEN Get(NUMBERS_TO_READINGS, first) \o SubSeq(wf, Len(first) + 1, Len(wf))
        ELSE wf

\* s cut at the positions of cuts, which are left out
RECURSIVE PartsAt(_, _)
PartsAt(s, cuts) ==
    IF cuts = {} THEN << s >>
    ELSE LET c == CHOOSE x \in cuts : \A y \in cuts : x <= y
         IN  << SubSeq(s, 1, c - 1) >>
                 \o PartsAt(SubSeq(s, c + 1, Len(s)), { x - c : x \in cuts \ {c} })

\* the pieces of s: the determinative spans, each from an opening brace to
\* the next closing brace, and the texts between them
RECURSIVE PiecesFrom(_, _)
PiecesFrom(s, from) ==
    LET opens == { a \in from..Len(s) :
                     s[a] = "{" /\ \E b \in (a + 1)..Len(s) : s[b] = "}" }
    IN  IF opens = {} THEN << [det |-> FALSE, text |-> SubSeq(s, from, Len(s))] >>
        ELSE LET a == CHOOSE x \in opens : \A y \in opens : x <= y
                 b == CHOOSE x \in (a + 1)..Len(s) :
                          s[x] = "}" /\ \A y \in (a + 1)..(x - 1) : s[y] # "}"
             IN  << [det |-> FALSE, text |-> SubSeq(s, from, a - 1)],
                    [det |-> TRUE, text |-> SubSeq(s, a, b)] >>
                     \o PiecesFrom(s, b + 1)

\* the hyphens of p that are not within parentheses: no closing parenthesis
\* follows in p without an opening one between
OpenHyphens(p) ==
    { i \in 1..Len(p) :
        /\ p[i] = HY
        /\ ~\E j \in (i + 1)..Len(p) :
               p[j] = ")" /\ \A k \in (i + 1)..(j - 1) : p[k] # "(" }

\* p cut at its spaces and then at the open hyphens of each part
AtOpenHyphens(p) ==
    LET parts == PartsAt(p, { i \in 1..Len(p) : p[i] = SP })
    IN  Flatten([k \in 1..Len(parts) |-> PartsAt(parts[k], OpenHyphens(parts[k]))])

\* the morphemes with every determinative span as one morpheme
SpansWhole(wf) ==
    LET pieces == PiecesFrom(WrittenOut(wf), 1)
    IN  NonEmpty(Flatten([k \in 1..Len(pieces) |->
            IF pieces[k].det THEN << pieces[k].text >>
            ELSE AtOpenHyphens(pieces[k].text)]))

\* the morphemes with the determinative spans cut at their hyphens too
SpansCut(wf) ==
    LET pieces == PiecesFrom(WrittenOut(wf), 1)
    IN  NonEmpty(Flatten([k \in 1..Len(pieces) |-> AtOpenHyphens(pieces[k].text)]))

\* the wordforms of the records the resolver has passed
WordformsPassed ==
    IF script = "add_glyphs"
    THEN UNION { { w \in Range(Wordforms(ReplacePairs(infile[i][KEY], ALL_REPLACEMENTS))) :
                     w \notin SPECIAL_TOKENS } : i \in 1..(pc - 1) }
    ELSE {}

\* the resolver was handed the morphemes ms
HandedOn(ms) == \A k \in 1..Len(ms) : \E r \in resolved : r[1] = ms[k]

\* C23 as stated: the segmenter returns each brace-delimited determinative
\* span as exactly one morpheme, also when it consists of several
\* hyphen-joined signs, cuts the rest only at hyphens that are not within
\* parentheses, keeps the order and returns no empty morpheme.
C23_DeterminativeOneMorpheme ==
    \A wf \in WordformsPassed :
        \A ms \in { split_wordform_into_morphemes(wf) } :
            /\ ms = SpansWhole(wf)
            /\ HandedOn(ms)

\* C23, amended: the segmenter returns the determinative spans and the
\* texts between them in order, each cut at its hyphens that are not
\* within parentheses, without the empty parts: a determinative span without
\* a hyphen is one morpheme, one of several hyphen-joined signs is cut at
\* its hyphens like the rest.
C23_DeterminativeCutAtHyphens ==
    \A wf \in WordformsPassed :
        \A ms \in { split_wordform_into_morphemes(wf) } :
            /\ ms = SpansCut(wf)
            /\ <<>> \notin Range(ms)
            /\ HandedOn(ms)

\* The record {ki-ka}lugal has been resolved: its determinative span was cut
\* into `{ki` and `ka}`, which were resolved as KI and KA.
C23_DeterminativeSplit ==
    /\ script = "add_glyphs"
    /\ pc = 2
    /\ infile[1][KEY] = Chars("{ki-ka}lugal")
    /\ SpansCut(Chars("{ki-ka}lugal")) = << Chars("{ki"), Chars("ka}"), Chars("lugal") >>
    /\ << Chars("{ki"), << << Chars("{ki"), Chars("KI"), <<"g_KI">> >> >> >> \in resolved
    /\ << Chars("ka}"), << << Chars("ka}"), Chars("KA"), <<"g_KA">> >> >> >> \in resolved
    /\ df[1].glyph_names = Chars("KI KA LUGAL")

\* ---- C24 ----

\* _check_for_unmatched_brackets runs in this step
UnmatchedStep == AtFn("check_for_unmatched_brackets") /\ pc' = pc + 1

\* the lines of a text
Lines(text) == PartsAt(text, { i \in 1..Len(text) : text[i] = NL })

\* the square brackets of the line do not reduce to nothing when adjacent
\* pairs `[]` are removed again and again
Unmatched(line) == BracketSeq(line) # <<>>

Uncaught(row, line) == << row.id, "!!! Uncaught in: ", line >>

\* C24 as stated: the unmatched-bracket check reports every line of a record
\* whose square brackets do not reduce to nothing, first or later, and
\* leaves the text as it is.
C24_EveryLineReported ==
    [][UnmatchedStep =>
           /\ df' = df
           /\ \A i \in 1..Len(df) :
                  \A line \in Range(Lines(df[i][KEY])) :
                      Unmatched(line) => Uncaught(df[i], line) \in log']_vars

\* What holds: the check reports the first line of a record when its square
\* brackets do not reduce to nothing, reports no other line, and leaves the
\* text as it is.
C24_FirstLineReported ==
    [][UnmatchedStep =>
           /\ df' = df
           /\ log' = log \cup { Uncaught(df[i], Lines(df[i][KEY])[1]) :
                                  i \in { j \in 1..Len(df) :
                                            Unmatched(Lines(df[j][KEY])[1]) } }]_vars

\* The check has run on a record whose second line has an unmatched bracket
\* and has reported nothing.
C24_SecondLineUnreported ==
    /\ script = "clean"
    /\ pc \in 2..Len(fns)
    /\ fns[pc - 1] = "check_for_unmatched_brackets"
    /\ Len(Lines(df[1][KEY])) = 2
    /\ ~Unmatched(Lines(df[1][KEY])[1])
    /\ Unmatched(Lines(df[1][KEY])[2])
    /\ \A l \in log : l[2] # "!!! Uncaught in: "

\* ---- C25 ----

\* the strings of DISALLOWED_2 the text holds
Disallowed2In(text) == { s \in Range(DISALLOWED_2) : Contains(text, s) }

\* _sanity_check_2 runs in this step
SanityStep2 == AtFn("sanity_check_2") /\ pc' = pc + 1

\* C25 as stated: when the second sanity check runs, no text holds `<`, `>`,
\* `(-`, `-)`, `{-` or `-}`.
C25_NothingDisallowed ==
    AtFn("sanity_check_2") =>
        \A i \in 1..Len(df) : Disallowed2In(df[i][KEY]) = {}

\* C25, amended: when the second sanity check runs no text holds `<`; the
\* other strings of the list can still be there, and the check prints one
\* diagnostic for every string of the list a text holds and leaves the text
\* as it is.
C25_NoOpeningAngleRestReported ==
    /\ [](AtFn("sanity_check_2") =>
              \A i \in 1..Len(df) : ~Contains(df[i][KEY], <<"<">>))
    /\ [][SanityStep2 =>
              /\ df' = df
              /\ log' = log \cup
                     UNION { { << df[i].id, "!!! Disallowed character", s >> :
                                 s \in Disallowed2In(df[i][KEY]) } :
                             i \in 1..Len(df) }]_vars

\* The second sanity check has run on the record read as `-))`, whose text
\* was `)-)` by then, and has reported `-)`.
C25_HyphenParenReported ==
    /\ script = "clean"
    /\ pc \in 2..Len(fns)
    /\ fns[pc - 1] = "sanity_check_2"
    /\ df[1].transliteration = << HY, ")", ")" >>
    /\ df[1][KEY] = << ")", HY, ")" >>
    /\ Disallowed2In(df[1][KEY]) = { << HY, ")" >> }
    /\ << df[1].id, "!!! Disallowed character", << HY, ")" >> >> \in log

\* ---- C26 ----

\* the step before this state was the collapse step
AfterCollapse ==
    /\ script = "clean"
    /\ pc \in 2..(Len(fns) + 1)
    /\ fns[pc - 1] = "collapse_whitespace_hyphens_missing"

\* the pairs of neighbours the collapse leaves none of: two hyphens, two
\* spaces, two newlines, a space or hyphen next to a newline, a hyphen next
\* to a space
CollapsedPairs ==
    { << HY, HY >>, << SP, SP >>, << NL, NL >>,
      << SP, NL >>, << NL, SP >>, << HY, NL >>, << NL, HY >>,
      << HY, SP >>, << SP, HY >> }

\* the places of the text where the missing marker begins
MissingAt(text) ==
    { k \in 1..(Len(text) - Len(MISSING) + 1) :
        SubSeq(text, k, k + Len(MISSING) - 1) = MISSING }

IsCollapsed(text) ==
    /\ \A k \in 1..(Len(text) - 1) : << text[k], text[k + 1] >> \notin CollapsedPairs
    /\ \A k \in MissingAt(text) :
          /\ k > 1 => text[k - 1] \notin { SP, HY }
          /\ k + Len(MISSING) <= Len(text) => text[k + Len(MISSING)] \notin { SP, HY }

\* C26: after the collapse step no text has two consecutive hyphens, spaces
\* or newlines, a space or hyphen next to a newline, a hyphen next to a
\* space, or a space or hyphen next to a missing marker.
C26_Collapsed ==
    AfterCollapse => \A i \in 1..Len(df) : IsCollapsed(df[i][KEY])

\* The first collapse has run on the record read as a hyphen, a space and
\* the missing marker, of which the marker alone is left.
C26_RunsCollapsed ==
    /\ AfterCollapse
    /\ pc = 5
    /\ df[1].transliteration = << HY, SP >> \o MISSING
    /\ ~IsCollapsed(df[1].transliteration)
    /\ df[1][KEY] = MISSING

\* ---- C27 ----

\* the text with its surface markers, markers of other kinds, newlines and
\* spaces taken out
Content(text) ==
    SelectSeq(Replace(Replace(Replace(Replace(Replace(text,
                  SURFACE, <<>>), COLUMN, <<>>), MISSING, <<>>),
                  BLANK_SPACE, <<>>), RULING, <<>>),
              LAMBDA c : c \notin White)

\* the text with its newlines and spaces taken out, markers kept
Squeezed(text) == SelectSeq(text, LAMBDA c : c \notin White)

\* the surfaces of the walked tokens that have content, in reading order
SurfacesWithContent(toks) ==
    SelectSeq(Split(Join(toks, << SP >>), SURFACE), LAMBDA s : Content(s) # <<>>)

\* the blocks of an output text: what follows each surface marker
Blocks(out) == Tail(Split(out, SURFACE))

\* no white space at either end, no two newlines or two spaces in a row and
\* no space next to a newline
WhiteSpaceCollapsed(out) ==
    /\ out # <<>> => out[1] \notin White /\ out[Len(out)] \notin White
    /\ \A k \in 1..Len(out) - 1 :
          /\ ~(out[k] = NL /\ out[k + 1] = NL)
          /\ ~(out[k] = SP /\ out[k + 1] = SP)
          /\ ~(out[k] \in White /\ out[k + 1] \in White)

\* the output text holds one block per surface with content, each under its
\* marker, and nothing else
SurfacesKept(toks, out) ==
    /\ SurfacesWithContent(toks) = <<>> => out = <<>>
    /\ out # <<>> => StartsWith(out, SURFACE)
    /\ Len(Blocks(out)) = Len(SurfacesWithContent(toks))
    /\ \A k \in 1..Len(Blocks(out)) :
          /\ Content(Blocks(out)[k]) # <<>>
          /\ Squeezed(Blocks(out)[k]) = Squeezed(SurfacesWithContent(toks)[k])

\* C27: the text that TextBase.transliteration returns has every surface
\* marker followed by a block with content, omits the surfaces without
\* content together with their markers, is empty when no surface has
\* content, and has no two consecutive newlines or spaces, no space next to
\* a newline and no white space at either end.
C27_SurfacesAndWhiteSpace ==
    /\ \A k \in 1..Len(texts) : WhiteSpaceCollapsed(texts[k].transliteration)
    /\ texts # <<>> => SurfacesKept(tokens, texts[Len(texts)].transliteration)

\* a surface without content stands before a surface with content, and the
\* output holds the one marker and the one block
C27_EmptySurfaceOmitted ==
    /\ texts # <<>>
    /\ tokens = << SURFACE, SURFACE, Chars("a") >>
    /\ texts[Len(texts)].transliteration = SURFACE \o << NL >> \o Chars("a")

\* ---- C28 ----

\* the Lemmas of a list of trees, at every depth
RECURSIVE LemmasIn(_)
LemmasIn(nodes) ==
    UNION { IF nodes[k].node = "l" THEN { nodes[k] }
            ELSE IF nodes[k].node = "c" THEN LemmasIn(nodes[k].cdl)
            ELSE {} :
            k \in 1..Len(nodes) }

\* C28: the bracket repair of a Lemma only inserts or removes square
\* brackets. For a tree that is one Lemma, whatever its literal text and its
\* ideal bracket sequence, the text the walker of text.py has extracted,
\* without its square brackets, is the literal text without its square
\* brackets; and for every Lemma of every tree the extract function of
\* cdl.py gives a text of which the same holds.
C28_OnlyBracketsChanged ==
    /\ (script = "_crawl_cdl_for_text" /\ Len(cdl) = 1 /\ cdl[1].node = "l") =>
           WithoutBrackets(Flatten(tokens)) = WithoutBrackets(Literal(cdl[1]))
    /\ Crawled =>
           \A node \in LemmasIn(cdl) :
               WithoutBrackets(extract_text_from_node(node))
                   = WithoutBrackets(Literal(node))

\* The literal text `a[` under the ideal sequence `][` has been walked: the
\* shutting bracket was inserted before the opening one, after the sign.
C28_BracketInsertedInside ==
    /\ script = "_crawl_cdl_for_text"
    /\ Len(cdl) = 1
    /\ cdl[1].node = "l"
    /\ ideal_bracket_seq(cdl[1].f.gdl) = << "]", "[" >>
    /\ Literal(cdl[1]) = Chars("a[")
    /\ tokens = << Chars("a][") >>

\* ---- C29 ----

\* a list of trees with its Lemmas taken out, at every depth
RECURSIVE WithoutLemmas(_)
WithoutLemmas(nodes) ==
    IF nodes = <<>> THEN <<>>
    ELSE LET node == Head(nodes)
         IN  (IF node.node = "l" THEN <<>>
              ELSE IF node.node = "c"
                   THEN << [node EXCEPT !.cdl = WithoutLemmas(node.cdl)] >>
              ELSE << node >>) \o WithoutLemmas(Tail(nodes))

\* C29: the two walkers agree. After the walker of cdl.py has walked a tree,
\* the token list and the language set are the ones the walker of text.py
\* returns for the same tree.
C29_WalkersAgree ==
    script = "crawl_cdl_for_text" =>
        /\ tokens = _crawl_cdl_for_text(cdl).tokens
        /\ langs = _crawl_cdl_for_text(cdl).langs

\* What holds: after the walker of cdl.py has walked a tree, the language set
\* is the one the walker of text.py returns for the tree, and the token list
\* is the one the walker of text.py returns for the tree without its Lemmas.
C29_WalkersAgreeButLemmaTexts ==
    script = "crawl_cdl_for_text" =>
        /\ langs = _crawl_cdl_for_text(cdl).langs
        /\ tokens = _crawl_cdl_for_text(WithoutLemmas(cdl)).tokens

\* The walker of cdl.py has walked a Lemma followed by the start of a line:
\* the language is there and the Lemma's text, which the walker of text.py
\* returns, is not.
C29_LemmaTextDropped ==
    /\ script = "crawl_cdl_for_text"
    /\ cdl = << Lemma(Chars("a"), [form |-> <<>>, lang |-> Chars("sux"),
                                   gdl |-> << NoBreak >>]),
                Discontinuity("line-start", <<>>, <<>>) >>
    /\ tokens = << NEWLINE >>
    /\ langs = { Chars("sux") }
    /\ _crawl_cdl_for_text(cdl).tokens = << Chars("a"), NEWLINE >>

\* ---- C30 ----

\* the three components are the unknown token, or none of them is
AllOrNothing(triple) ==
    \/ triple[1] = UNK /\ triple[2] = UNK /\ triple[3] = UNK
    \/ triple[1] # UNK /\ triple[2] # UNK /\ triple[3] # UNK

====
